---- MODULE Spec2Model ----
(***************************************************************************)
(* promptique: the KeyboardListener (src/promptique/_keyboard.py) running  *)
(* on an asyncio event loop, and the scoped activation of a prompt         *)
(* (src/promptique/_base.py) inside Menu.run (src/promptique/menu.py).     *)
(*                                                                         *)
(* The event loop is modelled as asyncio runs it: a FIFO queue of ready    *)
(* handles (`ready`), one handle executed at a time (KbLoopRun); tasks     *)
(* made by asyncio.create_task enter the queue when they are created and   *)
(* run their first step, in which the hook is called, when their handle    *)
(* reaches the head.  Calls made by the code around the listener (bind,    *)
(* simulate, start, stop, keys read from the terminal) happen between two  *)
(* handles.  Keys are identified by their name.                            *)
(***************************************************************************)
EXTENDS Integers, Sequences, FiniteSets, TLC

\* ------------------------------------------------------------------ bounds
\* the number of bind() calls made by the code around the listener
MaxBinds == 2
\* the number of callback tasks one listener creates
MaxTasks == 2
\* the number of start() calls explored by SpecRestart
MaxStarts == 2
\* the number of link() calls made by the code around the menu
MaxLinks == 2
\* the length Menu.prompts has when Menu.run is called
MaxBuilt == 4
\* the number of choices of a Select
MaxChoices == 3
\* the number of elements UserInput._buffer grows to in SpecBuffer
MaxBuffer == 3
\* the largest page_size a FileInput is made with
MaxPageSize == 2
\* the number of times the loop of a Spinner shows the next icon
MaxTicks == 8
\* the number of positional parameters of a callable given to invoke
MaxParams == 2
\* the number of context arguments invoke is called with
MaxGiven == 2
\* the number of keys read from the terminal while a prompt listens
MaxFeeds == 3
\* the length Menu.prompts grows to by add calls in SpecAdd
MaxAdded == 6
\* the length Menu.prompts grows to during Menu.run
MaxPrompts == 5

\* ---------------------------------------------------------------- universe
Keys == {"Enter", "ControlC", "Any"}
ConcreteKeys == Keys \ {"Any"}

\* Callbacks the code around the listener binds: a synchronous one, one whose
\* result is awaitable and stays pending until its future completes (or for
\* ever), and kb.stop bound with no_wait=True (bind's **kw).
UserHooks == {"cbA", "slow", "stopNoWait"}
\* the keys the code around the listener binds them under
BindKeys == {"Enter", "Any"}
\* "stop" is self.stop as start() binds it (no_wait=False).
StopHooks == {"stop", "stopNoWait"}

VARIABLES
    key_hooks,          \* KeyboardListener._key_hooks: key -> sequence of hooks
    is_accepting_keys,  \* KeyboardListener._is_accepting_keys
    background_done,    \* KeyboardListener._background_done: 0 is None, else the Event's id
    active_hooks,       \* KeyboardListener._active_hooks: set of task ids
    doneSet,            \* the asyncio.Events that are set
    starts,             \* the start() coroutines: [ignore, st], st in waiting/woken/returned
    tasks,              \* the tasks made by _trigger_hooks: [hook, st, cancel, waitOn];
                        \* waitOn is stop's local currently_active_hooks
    ready,              \* the event loop's queue of ready handles
    ext,                \* a coroutine outside the listener that awaits kb.stop(no_wait)
    registered,         \* history: the bind calls in the order they were made
    invoked,            \* history: the tasks whose hook was called, in call order
    warned,             \* history: the last "ignored" warning of _trigger_hooks, by when
    err                 \* what the last call made from outside raised ("none": it returned)

kbVars == <<key_hooks, is_accepting_keys, background_done, active_hooks, doneSet,
            starts, tasks, ready, ext, registered, invoked, warned, err>>


\* ------------------------------------------------------------- construction
KbInit ==
    /\ key_hooks = [k \in Keys |-> <<>>]
    /\ is_accepting_keys = FALSE
    /\ background_done = 0
    /\ active_hooks = {}
    /\ doneSet = {}
    /\ starts = <<>>
    /\ tasks = <<>>
    /\ ready = <<>>
    /\ ext = [st |-> "idle", no_wait |-> FALSE, waitOn |-> {}, returned |-> FALSE]
    /\ registered = <<>>
    /\ invoked = <<>>
    /\ warned = "none"
    /\ err = "none"

\* ------------------------------------------------------------------ helpers
Finished(tks, t) == tks[t].st \in {"done", "cancelled"}

\* the sequences that list every element of the finite set S once
Orders(S) == {o \in [1..Cardinality(S) -> S] : \A i, j \in 1..Cardinality(S) : i # j => o[i] # o[j]}

NewTask(hook) ==
    [hook |-> hook, st |-> "pending", cancel |-> FALSE, waitOn |-> {}]

StepHandles(ids) == [i \in 1..Len(ids) |-> <<"step", ids[i]>>]

\* fault model: the wildcard's hooks before the key's
HooksForAnyFirst(key) == key_hooks["Any"] \o key_hooks[key]

\* _trigger_hooks, lines 46-49: the hooks bound under the key, then the wildcard's
HooksFor(key) == key_hooks[key] \o key_hooks["Any"]

\* fault model: the listener refuses keys while an awaitable result is pending
ListenerShutWhileAwaiting ==
    \/ ~is_accepting_keys
    \/ \E t \in 1..Len(tasks) : tasks[t].st = "suspended"

\* fault model: the listener never refuses a key
ListenerShutNever == FALSE

\* _trigger_hooks, line 42
ListenerShut == ~is_accepting_keys

\* KeyboardListener._trigger_hooks(key), called with the queue `rdy`
TriggerHooks(key, rdy) ==
    IF ListenerShut
    THEN \* lines 42-44: the key is ignored with a warning
         /\ warned' = IF background_done = 0 THEN "never started" ELSE "shut"
         /\ ready' = rdy
         /\ UNCHANGED <<tasks, active_hooks>>
    ELSE LET hooks == HooksFor(key)
             n == Len(tasks)
             ids == [i \in 1..Len(hooks) |-> n + i]
         IN /\ n + Len(hooks) <= MaxTasks
            /\ tasks' = tasks \o [i \in 1..Len(hooks) |-> NewTask(hooks[i])]
            /\ active_hooks' = active_hooks \cup {ids[i] : i \in 1..Len(ids)}
            /\ ready' = rdy \o StepHandles(ids)
            /\ warned' = warned

\* KeyboardListener.bind(key, fn, **kw)
Bind(key, hook) ==
    /\ key_hooks' = [key_hooks EXCEPT ![key] = Append(@, hook)]
    /\ registered' = Append(registered, <<key, hook>>)
    /\ err' = "none"
    /\ UNCHANGED <<is_accepting_keys, background_done, active_hooks, doneSet, starts,
                   tasks, ready, ext, invoked, warned>>

\* KeyboardListener.simulate(key)
Simulate(key) ==
    /\ TriggerHooks(key, ready)
    /\ err' = "none"
    /\ UNCHANGED <<key_hooks, is_accepting_keys, background_done, doneSet, starts,
                   ext, registered, invoked>>

\* the input is attached (start() is inside `with self._input_pipe.attach(_feed_keys)`)
Attached == \E i \in 1..Len(starts) : starts[i].st # "returned"

\* _feed_keys: one key read from the terminal (a batch is several in a row)
FeedKeys(key) ==
    /\ Attached
    /\ TriggerHooks(key, ready)
    /\ UNCHANGED <<key_hooks, is_accepting_keys, background_done, doneSet, starts,
                   ext, registered, invoked, err>>

\* fault model: start binds the interrupt key whatever the flag
BindsControlCAlways(ignore_control_c) == TRUE

\* start, line 79
BindsControlC(ignore_control_c) == ~ignore_control_c

\* KeyboardListener.start(ignore_control_c), up to its await of the Event
Start(ignore_control_c) ==
    /\ is_accepting_keys' = TRUE
    /\ IF BindsControlC(ignore_control_c)
       THEN /\ key_hooks' = [key_hooks EXCEPT !["ControlC"] = Append(@, "stop")]
            /\ registered' = Append(registered, <<"ControlC", "stop">>)
       ELSE UNCHANGED <<key_hooks, registered>>
    /\ starts' = Append(starts, [ignore |-> ignore_control_c, st |-> "waiting"])
    /\ background_done' = Len(starts) + 1
    /\ err' = "none"
    /\ UNCHANGED <<active_hooks, doneSet, tasks, ready, ext, invoked, warned>>

\* asyncio.Event.set() on self._background_done: the start() awaiting it is woken
EventSetStarts ==
    [i \in 1..Len(starts) |->
        IF i = background_done /\ starts[i].st = "waiting"
        THEN [starts[i] EXCEPT !.st = "woken"] ELSE starts[i]]

EventSetHandles ==
    IF background_done \in 1..Len(starts) /\ starts[background_done].st = "waiting"
    THEN << <<"start", background_done>> >> ELSE <<>>

\* fault model: stop does not leave out the task that executes it
AllHooks(c) == active_hooks

\* stop, line 107: the hooks in flight other than the current task
OtherHooks(c) == active_hooks \ {c}

\* fault model: stop leaves _is_accepting_keys as it is
StopAcceptingKept == is_accepting_keys

\* stop, line 105: the value _is_accepting_keys gets
StopAccepting == FALSE

\* KeyboardListener.stop(no_wait), from its assert to its first await or its end,
\* run by caller c (a task id, or 0 for the coroutine outside the listener)
\* with the queue `rdy`.  The assert has passed: background_done # 0.
StopBody(c, no_wait, rdy) ==
    LET currently_active_hooks == OtherHooks(c)
        live == {h \in currently_active_hooks : ~Finished(tasks, h)}
        parked == {h \in live : tasks[h].st \in {"suspended", "waiting"}}
    IN /\ is_accepting_keys' = StopAccepting
       /\ IF currently_active_hooks = {}
          THEN \* line 116
               /\ doneSet' = doneSet \cup {background_done}
               /\ starts' = EventSetStarts
               /\ IF c = 0
                  THEN /\ ext' = [ext EXCEPT !.st = "idle", !.returned = TRUE]
                       /\ tasks' = tasks
                       /\ ready' = rdy \o EventSetHandles
                  ELSE /\ tasks' = [tasks EXCEPT ![c].st = "done"]
                       /\ ready' = rdy \o EventSetHandles \o << <<"discard", c>> >>
                       /\ ext' = ext
          ELSE IF no_wait
          THEN \* lines 109-112: cancel() each hook, in the set's order, then sleep(0)
               \E ord \in Orders(parked) :
                 LET cancelled == [h \in 1..Len(tasks) |->
                        IF h \in live
                        THEN [tasks[h] EXCEPT !.cancel = TRUE,
                                              !.st = IF h \in parked THEN "ready" ELSE @]
                        ELSE tasks[h]]
                 IN /\ IF c = 0
                       THEN /\ ext' = [ext EXCEPT !.st = "ready", !.no_wait = TRUE,
                                                  !.waitOn = currently_active_hooks]
                            /\ tasks' = cancelled
                       ELSE /\ tasks' = [cancelled EXCEPT
                                           ![c].st = "ready",
                                           ![c].waitOn = currently_active_hooks]
                            /\ ext' = ext
                    /\ ready' = rdy \o StepHandles(ord) \o << <<"step", c>> >>
                    /\ UNCHANGED <<doneSet, starts>>
          ELSE \* line 114: asyncio.wait(currently_active_hooks, timeout=1)
               /\ IF c = 0
                  THEN /\ ext' = [ext EXCEPT !.st = "waiting", !.waitOn = currently_active_hooks]
                       /\ tasks' = tasks
                  ELSE /\ tasks' = [tasks EXCEPT ![c].st = "waiting",
                                                 ![c].waitOn = currently_active_hooks]
                       /\ ext' = ext
               /\ ready' = rdy
               /\ UNCHANGED <<doneSet, starts>>

\* KeyboardListener.stop after its await (sleep(0) or asyncio.wait): line 116
StopFinish(c, rdy) ==
    /\ doneSet' = doneSet \cup {background_done}
    /\ starts' = EventSetStarts
    /\ IF c = 0
       THEN /\ ext' = [ext EXCEPT !.st = "idle", !.waitOn = {}, !.returned = TRUE]
            /\ tasks' = tasks
            /\ ready' = rdy \o EventSetHandles
       ELSE /\ tasks' = [tasks EXCEPT ![c].st = "done", ![c].waitOn = {}]
            /\ ready' = rdy \o EventSetHandles \o << <<"discard", c>> >>
            /\ ext' = ext

\* `await kb.stop(no_wait=...)` from a coroutine that is no callback task, as
\* tests/test_keyboard.py does; it stops the listener once
ExtStop(no_wait) ==
    /\ ext.st = "idle"
    /\ ~ext.returned
    /\ IF background_done = 0
       THEN \* line 104: the assert fails
            /\ err' = "AssertionError"
            /\ UNCHANGED <<is_accepting_keys, doneSet, starts, tasks, ready, ext>>
       ELSE /\ StopBody(0, no_wait, ready)
            /\ err' = "none"
    /\ UNCHANGED <<key_hooks, background_done, active_hooks, registered, invoked,
                   warned>>

\* the coroutine outside the listener is resumed inside stop
RunExtStep ==
    /\ ready # <<>>
    /\ Head(ready) = <<"step", 0>>
    /\ StopFinish(0, Tail(ready))
    /\ UNCHANGED <<key_hooks, is_accepting_keys, background_done, active_hooks,
                   registered, invoked, warned, err>>

\* the done callback of a task, line 58
RunDiscard ==
    /\ ready # <<>>
    /\ Head(ready)[1] = "discard"
    /\ active_hooks' = active_hooks \ {Head(ready)[2]}
    /\ ready' = Tail(ready)
    /\ UNCHANGED <<key_hooks, is_accepting_keys, background_done, doneSet, starts,
                   tasks, ext, registered, invoked, warned, err>>

\* start() is resumed after its Event was set: lines 98-100 exit, start returns
RunStartWake ==
    /\ ready # <<>>
    /\ Head(ready)[1] = "start"
    /\ starts' = [starts EXCEPT ![Head(ready)[2]].st = "returned"]
    /\ ready' = Tail(ready)
    /\ UNCHANGED <<key_hooks, is_accepting_keys, background_done, active_hooks, doneSet,
                   tasks, ext, registered, invoked, warned, err>>

\* one step of a callback task: _utils.invoke(hook, ctx), lines 32-40 of _utils.py
RunTaskStep ==
    /\ ready # <<>>
    /\ Head(ready)[1] = "step"
    /\ Head(ready)[2] # 0
    /\ LET t == Head(ready)[2]
           rdy == Tail(ready)
       IN IF tasks[t].cancel
          THEN \* CancelledError is thrown into the task
               /\ tasks' = [tasks EXCEPT ![t].st = "cancelled", ![t].waitOn = {}]
               /\ ready' = rdy \o << <<"discard", t>> >>
               /\ UNCHANGED <<is_accepting_keys, doneSet, starts, ext, invoked>>
          ELSE IF tasks[t].st = "pending"
          THEN \* the hook is called
               /\ invoked' = Append(invoked, t)
               /\ IF tasks[t].hook \in StopHooks
                  THEN StopBody(t, tasks[t].hook = "stopNoWait", rdy)
                  ELSE /\ IF tasks[t].hook = "slow"
                          THEN \* the result is awaitable: line 38 of _utils.py
                               /\ tasks' = [tasks EXCEPT ![t].st = "suspended"]
                               /\ ready' = rdy
                          ELSE /\ tasks' = [tasks EXCEPT ![t].st = "done"]
                               /\ ready' = rdy \o << <<"discard", t>> >>
                       /\ UNCHANGED <<is_accepting_keys, doneSet, starts, ext>>
          ELSE \* the task is resumed after an await
               /\ invoked' = invoked
               /\ IF tasks[t].hook \in StopHooks
                  THEN /\ StopFinish(t, rdy)
                       /\ UNCHANGED is_accepting_keys
                  ELSE /\ tasks' = [tasks EXCEPT ![t].st = "done"]
                       /\ ready' = rdy \o << <<"discard", t>> >>
                       /\ UNCHANGED <<is_accepting_keys, doneSet, starts, ext>>
    /\ UNCHANGED <<key_hooks, background_done, active_hooks, registered, warned,
                   err>>

\* the future an awaitable callback result waits for completes
SlowCompletes(t) ==
    /\ t \in 1..Len(tasks)
    /\ tasks[t].st = "suspended"
    /\ tasks' = [tasks EXCEPT ![t].st = "ready"]
    /\ ready' = Append(ready, <<"step", t>>)
    /\ UNCHANGED <<key_hooks, is_accepting_keys, background_done, active_hooks, doneSet,
                   starts, ext, registered, invoked, warned, err>>

Waiting(c) == IF c = 0 THEN ext.st = "waiting" ELSE c \in 1..Len(tasks) /\ tasks[c].st = "waiting"
WaitOn(c) == IF c = 0 THEN ext.waitOn ELSE tasks[c].waitOn

WakeWaiter(c) ==
    /\ IF c = 0
       THEN ext' = [ext EXCEPT !.st = "ready"] /\ tasks' = tasks
       ELSE tasks' = [tasks EXCEPT ![c].st = "ready"] /\ ext' = ext
    /\ ready' = Append(ready, <<"step", c>>)
    /\ UNCHANGED <<key_hooks, is_accepting_keys, background_done, active_hooks, doneSet,
                   starts, registered, invoked, warned, err>>

\* asyncio.wait(..., timeout=1) of line 114: every awaited task has finished
WaitDone(c) ==
    /\ Waiting(c)
    /\ \A h \in WaitOn(c) : Finished(tasks, h)
    /\ WakeWaiter(c)

\* fault model: asyncio.wait without a timeout
WaitNoTimeout(c) == FALSE

\* asyncio.wait(..., timeout=1) of line 114: the timeout expires
WaitTimeout(c) ==
    /\ Waiting(c)
    /\ WakeWaiter(c)

NumUserBinds == Cardinality({i \in 1..Len(registered) : registered[i][2] \in UserHooks})

\* The code around a listener binds its callbacks, then starts it: every prompt
\* does (prompts/select.py 149-169, prompts/input.py 76-85).
BindAllowed == NumUserBinds < MaxBinds /\ background_done = 0

\* ============================================================ prompts, menu
\* ---------------------------------------------------------------- universe
\* Menu.__init__ wraps the intro and outro strings in Notes with these ids; A, B
\* and C are prompts made by the code around the menu.
PromptIds == {"intro", "A", "B", "C", "outro"}
\* types.PromptStatus
PromptStatus == {"HIDDEN", "ACTIVE", "SUCCESS", "WARNING", "ERROR", "CANCEL"}
\* what the body of the `with prompt:` block ends with
Outcomes == {"none", "KeyboardInterrupt", "Exception"}
\* what a link's validator does with the ResponseContext it is given
Validators == {"approve", "reject", "raise"}
\* the prompts a link or an add() brings into the menu
NextPrompts == {"B", "C"}

VARIABLES
    prompts,         \* Menu.prompts
    has_outro,       \* Menu.has_outro
    live,            \* Menu.live: "off", "started" or "stopped"
    status,          \* BasePrompt._status of every prompt
    transient,       \* BasePrompt.transient of every prompt
    exception,       \* BasePrompt._exception of every prompt
    linked_prompts,  \* BasePrompt._linked_prompts of every prompt
    run,             \* Menu.run: where it is (pc) and its list iterator (idx)
    evaluated,       \* history: the links called, <<prompt, next_prompt>>, in order
    last_exit        \* history: the last __exit__, with the status before and after

menuVars == <<prompts, has_outro, live, status, transient, exception,
              linked_prompts, run, evaluated, last_exit>>

NoExit == [prompt |-> "None", before |-> "HIDDEN", exc |-> "none", after |-> "HIDDEN"]

\* the prompts and the menu before Menu(...) is called
MenuInit ==
    /\ prompts = <<>>
    /\ has_outro = FALSE
    /\ live = "off"
    /\ status = [p \in PromptIds |-> "HIDDEN"]
    /\ transient = [p \in PromptIds |-> FALSE]
    /\ exception = [p \in PromptIds |-> "none"]
    /\ linked_prompts = [p \in PromptIds |-> <<>>]
    /\ run = [pc |-> "new", idx |-> 0]
    /\ evaluated = <<>>
    /\ last_exit = NoExit

\* BasePrompt.is_active
is_active(p) == status[p] \in {"ACTIVE", "WARNING"}

\* list.index
RECURSIVE IndexFrom(_, _, _)
IndexFrom(ps, x, i) ==
    IF i > Len(ps) THEN 0
    ELSE IF ps[i] = x THEN i
    ELSE IndexFrom(ps, x, i + 1)

Index(ps, x) == IndexFrom(ps, x, 1)

\* list.insert(i, x), i counted from 0
Insert(ps, i, x) == SubSeq(ps, 1, i) \o <<x>> \o SubSeq(ps, i + 1, Len(ps))

\* Menu.add, lines 121-122: the prompt a new one goes after when none is given
DefaultAfter(ps) == IF ~has_outro THEN ps[Len(ps)] ELSE ps[Len(ps) - 1]

\* fault model: add that puts the prompt at the end
AddLast(ps, prompt, after) == Append(ps, prompt)

\* Menu.add, line 124, on the list ps
AddAfter(ps, prompt, after) == Insert(ps, Index(ps, after), prompt)

\* the total number of links
NumLinks == Len(linked_prompts["A"]) + Len(linked_prompts["B"])

\* Menu.__init__: Notes for the intro and the outro around the prompts given.
\* The prompts were constructed before, with their `transient` fields.
MenuNew(given, outro, tr) ==
    /\ run.pc = "new"
    /\ has_outro' = outro
    /\ prompts' = <<"intro">> \o given \o (IF outro THEN <<"outro">> ELSE <<>>)
    /\ transient' = [p \in PromptIds |-> IF p \in DOMAIN tr THEN tr[p] ELSE FALSE]
    /\ run' = [run EXCEPT !.pc = "built"]
    /\ UNCHANGED <<live, status, exception, linked_prompts, evaluated, last_exit>>

\* fault model: link that appends the decorator
LinkedLast(links, l) == Append(links, l)

\* BasePrompt.link, line 139: the decorator goes to the front of _linked_prompts
LinkedFirst(links, l) == <<l>> \o links

\* BasePrompt.link; nth records that this is the prompt's nth link() call
Link(p, next_prompt, validator) ==
    /\ run.pc = "built"
    /\ NumLinks < MaxLinks
    /\ linked_prompts' =
           [linked_prompts EXCEPT
               ![p] = LinkedFirst(@, [validator |-> validator,
                                      next_prompt |-> next_prompt,
                                      nth |-> Len(@) + 1])]
    /\ UNCHANGED <<prompts, has_outro, live, status, transient, exception, run,
                   evaluated, last_exit>>

\* Menu.add called by the code around the menu; after = "None" for the default
AddCall(prompt, after) ==
    /\ run.pc = "built"
    /\ prompts' = AddAfter(prompts, prompt,
                           IF after = "None" THEN DefaultAfter(prompts) ELSE after)
    /\ UNCHANGED <<has_outro, live, status, transient, exception, linked_prompts,
                   run, evaluated, last_exit>>

\* the add calls made before a menu is run
Add(prompt, after) == Len(prompts) < MaxBuilt /\ AddCall(prompt, after)

\* Menu.run, line 128
RunStart ==
    /\ run.pc = "built"
    /\ live' = "started"
    /\ run' = [pc |-> "next", idx |-> 1]
    /\ UNCHANGED <<prompts, has_outro, status, transient, exception,
                   linked_prompts, evaluated, last_exit>>

\* the prompt Menu.run is handling
Current == prompts[run.idx]

\* Menu.run, line 130, the iterator has a next prompt; handle_prompt, line 114;
\* BasePrompt.__enter__
PromptEnter ==
    /\ run.pc = "next"
    /\ run.idx <= Len(prompts)
    /\ status' = [status EXCEPT ![Current] = "ACTIVE"]
    /\ run' = [run EXCEPT !.pc = "body"]
    /\ UNCHANGED <<prompts, has_outro, live, transient, exception,
                   linked_prompts, evaluated, last_exit>>

\* Menu.run, lines 130 and 136: the iterator is exhausted
RunExhausted ==
    /\ run.pc = "next"
    /\ run.idx > Len(prompts)
    /\ live' = "stopped"
    /\ run' = [run EXCEPT !.pc = "done"]
    /\ UNCHANGED <<prompts, has_outro, status, transient, exception,
                   linked_prompts, evaluated, last_exit>>

\* inside the block: BasePrompt.warning (setter), called by a validator
SetWarning ==
    /\ run.pc = "body"
    /\ status[Current] # "WARNING"
    /\ status' = [status EXCEPT ![Current] = "WARNING"]
    /\ UNCHANGED <<prompts, has_outro, live, transient, exception,
                   linked_prompts, run, evaluated, last_exit>>

\* inside the block: Select._input_terminate, UserInput._interact_terminate,
\* Confirm.cancel_if_stop_choice set the status themselves
Terminate ==
    /\ run.pc = "body"
    /\ status[Current] # "CANCEL"
    /\ status' = [status EXCEPT ![Current] = "CANCEL"]
    /\ UNCHANGED <<prompts, has_outro, live, transient, exception,
                   linked_prompts, run, evaluated, last_exit>>

\* fault model: __exit__ without its KeyboardInterrupt branch
IsInterruptNever(exc) == FALSE

\* __exit__, line 144
IsInterrupt(exc) == exc = "KeyboardInterrupt"

\* fault model: __exit__ that does not look at `transient`
ResolvedStatusShown(p) == "SUCCESS"

\* __exit__, line 157
ResolvedStatus(p) == IF ~transient[p] THEN "SUCCESS" ELSE "HIDDEN"

\* fault model: __exit__ that leaves the status as it is
ExitStatusKept(p, exc) == status[p]

\* __exit__, lines 144-165: the status the prompt leaves the block with
ExitStatus(p, exc) ==
    IF IsInterrupt(exc) THEN "CANCEL"
    ELSE IF exc # "none" THEN "ERROR"
    ELSE IF is_active(p) THEN ResolvedStatus(p)
    ELSE status[p]

\* fault model: __exit__ that processes the links whatever the status
ProcessesLinksAnyStatus(p, exc) == exc = "none"

\* __exit__, lines 144-161: the branch that processes the links
ProcessesLinks(p, exc) == ~IsInterrupt(exc) /\ exc = "none" /\ is_active(p)

\* __exit__, line 161 with the decorator of BasePrompt.link: the links of p
\* called one after the other on acc = [prompts, evaluated, raised]; a validator
\* that raises ends the comprehension
RECURSIVE CallLinks(_, _, _)
CallLinks(links, p, acc) ==
    IF links = <<>> THEN acc
    ELSE LET l == Head(links)
             ev == Append(acc.evaluated, <<p, l.next_prompt>>)
         IN  IF l.validator = "raise"
             THEN [acc EXCEPT !.evaluated = ev, !.raised = TRUE]
             ELSE IF l.validator = "reject"
             THEN CallLinks(Tail(links), p, [acc EXCEPT !.evaluated = ev])
             ELSE CallLinks(Tail(links), p,
                            [acc EXCEPT !.evaluated = ev,
                                        !.prompts = AddAfter(@, l.next_prompt, p)])

\* fault model: __exit__ that does not keep the exception
StoredExceptionKept(p, exc) == exception[p]

\* __exit__, lines 147-148, and the setter of BasePrompt.exception, line 90
StoredException(p, exc) ==
    IF ~IsInterrupt(exc) /\ exc # "none" THEN exc ELSE exception[p]

\* fault model: Menu.run that goes on after an ERROR
HaltsOnCancel(s) == s = "CANCEL"

\* Menu.run, line 133
Halts(s) == s \in {"CANCEL", "ERROR"}

\* the block of handle_prompt ends with exc: BasePrompt.__exit__, which
\* suppresses exc, then Menu.run lines 133-136.  An exception raised by a
\* link's validator leaves __exit__, handle_prompt and run.
PromptExit(exc) ==
    /\ run.pc = "body"
    /\ Len(prompts) + Len(linked_prompts[Current]) <= MaxPrompts
    /\ LET p == Current
           s == ExitStatus(p, exc)
           acc0 == [prompts |-> prompts, evaluated |-> evaluated, raised |-> FALSE]
           acc == IF ProcessesLinks(p, exc)
                  THEN CallLinks(linked_prompts[p], p, acc0)
                  ELSE acc0
       IN  /\ status' = [status EXCEPT ![p] = s]
           /\ exception' = [exception EXCEPT ![p] = StoredException(p, exc)]
           /\ prompts' = acc.prompts
           /\ evaluated' = acc.evaluated
           /\ last_exit' = [prompt |-> p, before |-> status[p], exc |-> exc, after |-> s]
           /\ IF acc.raised
              THEN /\ run' = [run EXCEPT !.pc = "raised"]
                   /\ live' = live
              ELSE IF Halts(s)
              THEN /\ run' = [run EXCEPT !.pc = "done"]
                   /\ live' = "stopped"
              ELSE /\ run' = [run EXCEPT !.pc = "next", !.idx = @ + 1]
                   /\ live' = live
    /\ UNCHANGED <<has_outro, transient, linked_prompts>>

\* ================================================================== Select
\* A choice is identified by its position; its text is unique in the prompt.
\* What Select(choices=...) is given for one choice: a string (also the value
\* of a hotkey mapping) or a PromptOption with the flags its maker set.
ChoiceSpecs ==
    {[kind |-> "str", is_selected |-> FALSE, is_highlighted |-> FALSE]} \cup
    [kind : {"option"}, is_selected : BOOLEAN, is_highlighted : BOOLEAN]

Modes == {"SINGLE", "MULTI"}

VARIABLES
    choices,    \* Select.choices: sequence of [is_selected, is_highlighted]
    mode,       \* Select.mode
    sel_pc,     \* "new" before Select(...) is called, then "built"
    sel_key,    \* the key the Select's listener dispatched last: "none", "arrow", "space", "hotkey"
    sel_err     \* what the last key callback of the Select raised ("none": it returned)

selVars == <<choices, mode, sel_pc, sel_key, sel_err>>

SelectInit ==
    /\ choices = <<>>
    /\ mode = "SINGLE"
    /\ sel_pc = "new"
    /\ sel_key = "none"
    /\ sel_err = "none"

\* _convert_string_to_choice, lines 57-62: a string becomes a PromptOption that
\* is highlighted when it is the first choice, a PromptOption is taken as it is
ConvertChoice(spec, idx) ==
    IF spec.kind = "str"
    THEN [is_selected |-> FALSE, is_highlighted |-> idx = 1]
    ELSE [is_selected |-> spec.is_selected, is_highlighted |-> spec.is_highlighted]

\* _convert_string_to_choice, lines 64-65
SelectFirstIfNone(chs) ==
    IF \E i \in 1..Len(chs) : chs[i].is_selected
    THEN chs
    ELSE [chs EXCEPT ![1].is_selected = TRUE]

\* Select(choices=specs, mode=m)
SelectNew(specs, m) ==
    /\ sel_pc = "new"
    /\ choices' = SelectFirstIfNone([i \in 1..Len(specs) |-> ConvertChoice(specs[i], i)])
    /\ mode' = m
    /\ sel_pc' = "built"
    /\ sel_key' = "none"
    /\ sel_err' = "none"

\* _get_highlighted_info: the first highlighted choice, 0 when it raises
Highlighted(chs) ==
    IF \E i \in 1..Len(chs) : chs[i].is_highlighted
    THEN CHOOSE i \in 1..Len(chs) :
            /\ chs[i].is_highlighted
            /\ \A j \in 1..(i - 1) : ~chs[j].is_highlighted
    ELSE 0

\* the choices of the Select that are selected / that are drawn highlighted
Selected(chs) == {i \in 1..Len(chs) : chs[i].is_selected}
Focused(chs) == {i \in 1..Len(chs) : chs[i].is_highlighted}

\* Select.answer: the selected choices in the order of the list
Answer(chs) ==
    SelectSeq([i \in 1..Len(chs) |-> i], LAMBDA i : chs[i].is_selected)

\* fault model: toggle only ever switches a choice on
ToggleOn(b) == TRUE

\* PromptOption.toggle
Toggle(b) == ~b

\* Select.select(choice), m the mode
SelectChoice(chs, m, c) ==
    [i \in 1..Len(chs) |->
        IF i = c /\ m = "SINGLE" /\ chs[i].is_selected THEN chs[i]
        ELSE IF i = c THEN [chs[i] EXCEPT !.is_selected = Toggle(@)]
        ELSE IF m = "SINGLE" THEN [chs[i] EXCEPT !.is_selected = FALSE]
        ELSE chs[i]]

\* Select.highlight(choice)
Highlight(chs, c) == [i \in 1..Len(chs) |-> [chs[i] EXCEPT !.is_highlighted = (i = c)]]

\* the choice a focus move goes to: lines 87 and 95, step is 1 or -1
Wrap(idx, step, n) == ((idx - 1 + step) % n) + 1

\* Select._input_highlighter for a key of one direction, where the focus is idx
InputHighlighter(chs, m, idx, step) ==
    LET to == Wrap(idx, step, Len(chs))
        lit == Highlight(chs, to)
    IN  IF m = "SINGLE" /\ Len(chs) > 1 THEN SelectChoice(lit, m, to) ELSE lit

\* Select._input_select
InputSelect(chs, m) ==
    IF m = "MULTI" /\ Len(chs) > 1 /\ Highlighted(chs) # 0
    THEN SelectChoice(chs, m, Highlighted(chs))
    ELSE chs

\* fault model: a hotkey that leaves the focus where it is in either mode
InputHotkeySelectNoFocus(chs, m, c) == SelectChoice(chs, m, c)

\* Select._input_hotkey_select(choice=c)
InputHotkeySelect(chs, m, c) ==
    LET picked == SelectChoice(chs, m, c)
    IN  IF m = "SINGLE" THEN Highlight(picked, c) ELSE picked

\* a key of one direction is dispatched: Right/Down (step 1), Left/Up (step -1)
FocusMove(step) ==
    /\ sel_pc = "built"
    /\ sel_key' = "arrow"
    /\ IF Highlighted(choices) = 0
       THEN \* line 79
            /\ sel_err' = "ValueError"
            /\ choices' = choices
       ELSE /\ sel_err' = "none"
            /\ choices' = InputHighlighter(choices, mode, Highlighted(choices), step)
    /\ UNCHANGED <<mode, sel_pc>>

\* the space key is dispatched
ToggleSelect ==
    /\ sel_pc = "built"
    /\ sel_key' = "space"
    /\ sel_err' = IF mode = "MULTI" /\ Len(choices) > 1 /\ Highlighted(choices) = 0
                  THEN "ValueError" ELSE "none"
    /\ choices' = InputSelect(choices, mode)
    /\ UNCHANGED <<mode, sel_pc>>

\* the hotkey of choice c is dispatched
HotkeySelect(c) ==
    /\ sel_pc = "built"
    /\ c \in 1..Len(choices)
    /\ sel_key' = "hotkey"
    /\ sel_err' = "none"
    /\ choices' = InputHotkeySelect(choices, mode, c)
    /\ UNCHANGED <<mode, sel_pc>>

\* a choice given as a string; a PromptOption made with its text only
StrChoice == [kind |-> "str", is_selected |-> FALSE, is_highlighted |-> FALSE]
BareOption == [kind |-> "option", is_selected |-> FALSE, is_highlighted |-> FALSE]

\* the sequences of 1..n choice specs
ChoiceLists(n) == UNION {[1..k -> ChoiceSpecs] : k \in 1..n}

\* ============================================ a prompt that listens for keys
\* Prompt A of the menu is a Select, a Confirm, a UserInput or a FileInput.
\* Menu.handle_prompt enters it and calls its interactivity, which binds the
\* prompt's callbacks to a KeyboardListener and runs it.  prompts/input.py
\* takes the listener from promptique.keyboard and prompts/select.py reads
\* ctx.key_press; the listener is the one of _keyboard.py, whose bind, simulate
\* and context they use, and ctx.key_press.key is the key of the context.
\*
\* The loop of asyncio.run executes the callback tasks in the order they were
\* created.  stop() closes the listener and waits for every other task made
\* before (all are synchronous, none outlives the one second); no task is made
\* after it, so kb.run() returns when a stop has run and no task is left.
PromptKinds == {"Select", "Confirm", "UserInput", "FileInput"}
SelectKinds == {"Select", "Confirm"}
InputKinds == {"UserInput", "FileInput"}

\* the keys read from the terminal; "a" is a letter
TerminalKeys == {"Enter", "Escape", "ControlC", "Down", "a"}

\* keys.Key.is_printable as _feed_keys sets it (lines 89-94 of _keyboard.py)
is_printable(key) == key \in {"a", "b", "/", "Backslash", "Quote"}

\* the validators given to the prompt.  "rejects" returns False and "warns"
\* sets prompt.warning before it returns False (as FileInput.is_path_type
\* does); the others are the functions of validation.py and prompts/select.py
ValidatorsOf(k) ==
    CASE k = "Select" -> {"_noop_always_valid", "rejects", "warns"}
      [] k = "Confirm" -> {"cancel_if_stop_choice"}
      [] k = "UserInput" -> {"noop_always_valid", "response_not_null", "rejects", "warns"}
      [] OTHER -> {"is_path_type"}

NoResponse == [committed |-> FALSE, value |-> <<>>]

VARIABLES
    kind,               \* the class of prompt A ("None" before it is made)
    validator,          \* Select.selection_validator / UserInput.input_validator
    choice_means_stop,  \* Confirm.choice_means_stop: a choice, 0 for None
    buffer,             \* UserInput._buffer
    response,           \* BasePrompt._response: [committed, value]
    warning,            \* BasePrompt._warning ("None" or the message)
    listener,           \* the prompt's KeyboardListener: [st, accepting, stopped]
    hook_tasks,         \* the callback tasks not yet run: [hook, key], oldest first
    fed,                \* history: how many keys were read from the terminal
    interrupted,        \* history: ControlC was read while the listener accepted keys
    task_exc,           \* the exception the last failed callback task holds
    accepted,           \* history: a validation on Enter has accepted
    last_call           \* history: the last method called on the prompt from outside

promptVars == <<kind, validator, choice_means_stop, buffer, response, warning,
                listener, hook_tasks, fed, interrupted, task_exc, accepted, last_call>>

PromptInit ==
    /\ kind = "None"
    /\ validator = "None"
    /\ choice_means_stop = 0
    /\ buffer = <<>>
    /\ response = NoResponse
    /\ warning = "None"
    /\ listener = [st |-> "off", accepting |-> FALSE, stopped |-> FALSE]
    /\ hook_tasks = <<>>
    /\ fed = 0
    /\ interrupted = FALSE
    /\ task_exc = "none"
    /\ accepted = FALSE
    /\ last_call = "none"

\* everything of the menu but the statuses, of the Select but the choices
menuRest == <<prompts, has_outro, live, transient, exception, linked_prompts, run,
              evaluated, last_exit>>
selRest == <<mode, sel_pc, sel_key, sel_err>>

\* Select(choices=specs, mode=m, selection_validator=v)
NewSelect(specs, m, v) ==
    /\ kind = "None"
    /\ SelectNew(specs, m)
    /\ kind' = "Select"
    /\ validator' = v
    /\ UNCHANGED <<choice_means_stop, buffer, response, warning, listener,
                   hook_tasks, fed, interrupted, task_exc, accepted, last_call>>

\* Confirm(default=..., choice_means_stop=...): choice 1 is Yes, choice 2 is No
NewConfirm(default, stop) ==
    /\ kind = "None"
    /\ SelectNew([i \in 1..2 |-> [kind |-> "option", is_selected |-> i = default,
                                  is_highlighted |-> i = default]], "SINGLE")
    /\ kind' = "Confirm"
    /\ validator' = "cancel_if_stop_choice"
    /\ choice_means_stop' = stop
    /\ UNCHANGED <<buffer, response, warning, listener, hook_tasks, fed,
                   interrupted, task_exc, accepted, last_call>>

\* fault model: set_buffer that adds to the buffer
SetBufferAppends(buf, user_input) ==
    buf \o [i \in 1..Len(user_input) |-> <<user_input[i]>>]

\* UserInput.set_buffer: list(user_input), one element per character.  A str
\* is the sequence of its characters, the buffer a sequence of strs
SetBuffer(buf, user_input) == [i \in 1..Len(user_input) |-> <<user_input[i]>>]

\* UserInput(prefill=..., input_validator=v) and FileInput(...), whose prefill
\* is the working directory and whose validator is is_path_type; prefill <<>>
\* stands for None
NewInput(k, prefill, v) ==
    /\ kind = "None"
    /\ kind' = k
    /\ validator' = v
    /\ buffer' = IF prefill = <<>> THEN buffer ELSE SetBuffer(buffer, prefill)
    /\ UNCHANGED <<choice_means_stop, response, warning, listener, hook_tasks, fed,
                   interrupted, task_exc, accepted, last_call>>
    /\ UNCHANGED selVars

\* u.set_buffer(user_input), called by the code around the prompt
SetBufferCall(user_input) ==
    /\ kind \in InputKinds
    /\ buffer' = SetBuffer(buffer, user_input)
    /\ last_call' = "set_buffer"
    /\ UNCHANGED <<kind, validator, choice_means_stop, response, warning, listener,
                   hook_tasks, fed, interrupted, task_exc, accepted>>
    /\ UNCHANGED <<menuVars, selVars>>

\* the callbacks bound under a key, in bind order: Select.interactivity,
\* UserInput.interactivity, FileInput.interactivity and line 80 of _keyboard.py
BoundUnder(k, key) ==
    IF key = "ControlC" THEN <<"stop">>
    ELSE IF k \in SelectKinds
    THEN CASE key = "Down" -> <<"_input_highlighter">>
           [] key = "Escape" -> <<"_input_terminate">>
           [] key = "Enter" -> <<"_input_validate">>
           [] key = "Any" -> <<"refresh">>
           [] OTHER -> <<>>
    ELSE CASE key = "Enter" -> <<"_interact_validate">>
           [] key = "Escape" -> <<"_interact_terminate">>
           [] key = "Any" -> <<"_interact_buffer_append", "refresh">>
           [] OTHER -> <<>>

\* _trigger_hooks(key) on the tasks q: one task per hook of the key, then of Any
Dispatch(q, key) ==
    IF ~listener.accepting THEN q
    ELSE LET hooks == BoundUnder(kind, key) \o BoundUnder(kind, "Any")
         IN  q \o [i \in 1..Len(hooks) |-> [hook |-> hooks[i], key |-> key]]

\* the prompt whose interactivity runs
Interacting == run.pc = "body" /\ Current = "A" /\ listener.st = "running"

\* handle_prompt, line 117: interactivity binds the callbacks and calls
\* kb.run(); start() opens the listener
Interact ==
    /\ run.pc = "body"
    /\ Current = "A"
    /\ kind # "None"
    /\ listener.st = "off"
    /\ listener' = [st |-> "running", accepting |-> TRUE, stopped |-> FALSE]
    /\ UNCHANGED <<kind, validator, choice_means_stop, buffer, response, warning,
                   hook_tasks, fed, interrupted, task_exc, accepted, last_call>>
    /\ UNCHANGED <<menuVars, selVars>>

\* _feed_keys: a key is read from the terminal
Feed(key) ==
    /\ Interacting
    /\ fed' = fed + 1
    /\ interrupted' = (interrupted \/ (key = "ControlC" /\ listener.accepting))
    /\ hook_tasks' = Dispatch(hook_tasks, key)
    /\ UNCHANGED <<kind, validator, choice_means_stop, buffer, response, warning,
                   listener, task_exc, accepted, last_call>>
    /\ UNCHANGED <<menuVars, selVars>>

\* the task at the head of the loop's queue calls hook h
Runs(h) == Interacting /\ hook_tasks # <<>> /\ Head(hook_tasks).hook = h

\* live.refresh
RunRefresh ==
    /\ Runs("refresh")
    /\ hook_tasks' = Tail(hook_tasks)
    /\ UNCHANGED <<kind, validator, choice_means_stop, buffer, response, warning,
                   listener, fed, interrupted, task_exc, accepted, last_call>>
    /\ UNCHANGED <<menuVars, selVars>>

\* KeyboardListener.stop
RunStop ==
    /\ Runs("stop")
    /\ hook_tasks' = Tail(hook_tasks)
    /\ listener' = [listener EXCEPT !.accepting = FALSE, !.stopped = TRUE]
    /\ UNCHANGED <<kind, validator, choice_means_stop, buffer, response, warning,
                   fed, interrupted, task_exc, accepted, last_call>>
    /\ UNCHANGED <<menuVars, selVars>>

\* Select._input_highlighter for the Down key
RunHighlighter ==
    /\ Runs("_input_highlighter")
    /\ hook_tasks' = Tail(hook_tasks)
    /\ IF Highlighted(choices) = 0
       THEN task_exc' = "ValueError" /\ choices' = choices
       ELSE /\ task_exc' = task_exc
            /\ choices' = InputHighlighter(choices, mode, Highlighted(choices), 1)
    /\ UNCHANGED <<kind, validator, choice_means_stop, buffer, response, warning,
                   listener, fed, interrupted, accepted, last_call>>
    /\ UNCHANGED <<menuVars, selRest>>

\* Select._input_terminate and UserInput._interact_terminate
RunTerminate ==
    /\ Runs("_input_terminate") \/ Runs("_interact_terminate")
    /\ status' = [status EXCEPT !["A"] = "CANCEL"]
    /\ hook_tasks' = Dispatch(Tail(hook_tasks), "ControlC")
    /\ UNCHANGED <<kind, validator, choice_means_stop, buffer, response, warning,
                   listener, fed, interrupted, task_exc, accepted, last_call>>
    /\ UNCHANGED <<menuRest, selVars>>

\* what the validator does with the response r; `fits` tells whether the path
\* is of FileInput's path_type (or need not exist)
Verdict(v, r, fits) ==
    CASE v \in {"_noop_always_valid", "noop_always_valid", "cancel_if_stop_choice"} -> "accept"
      [] v = "response_not_null" -> IF r # <<>> THEN "accept" ELSE "raise"
      [] v = "rejects" -> "reject"
      [] v = "warns" -> "warn"
      [] OTHER -> IF fits THEN "accept" ELSE "warn"

\* BasePrompt.warning (setter), lines 80-81
WarnedStatus(s) == "WARNING"

\* Confirm.cancel_if_stop_choice, lines 224-225: answer[0] is the first
\* selected choice
StopChosen ==
    /\ validator = "cancel_if_stop_choice"
    /\ Selected(choices) # {}
    /\ (CHOOSE c \in Selected(choices) : \A d \in Selected(choices) : c <= d)
          = choice_means_stop

\* Select._input_validate, lines 124-125: what _response holds after the
\* validator accepted the answer ans; the method assigns nothing to it
SelectCommits(resp, ans) == resp

\* Select._input_validate
RunSelectValidate ==
    /\ Runs("_input_validate")
    /\ LET verdict == Verdict(validator, Answer(choices), TRUE)
       IN  /\ status' = IF StopChosen THEN [status EXCEPT !["A"] = "CANCEL"]
                        ELSE IF verdict = "warn"
                        THEN [status EXCEPT !["A"] = WarnedStatus(@)]
                        ELSE status
           /\ warning' = IF verdict = "warn" THEN "invalid" ELSE warning
           /\ response' = IF verdict = "accept"
                          THEN SelectCommits(response, Answer(choices))
                          ELSE response
           /\ accepted' = (accepted \/ verdict = "accept")
           /\ hook_tasks' = IF verdict = "accept"
                            THEN Dispatch(Tail(hook_tasks), "ControlC")
                            ELSE Tail(hook_tasks)
    /\ UNCHANGED <<kind, validator, choice_means_stop, buffer, listener, fed,
                   interrupted, task_exc, last_call>>
    /\ UNCHANGED <<menuRest, selVars>>

\* UserInput._interact_buffer_append, line 54: data is the key's character,
\* or the pasted text of a BracketedPaste
BufferAppend(buf, data) == Append(buf, data)

\* UserInput._interact_buffer_append (FileInput's adds the suggestions)
RunBufferAppend ==
    /\ Runs("_interact_buffer_append")
    /\ hook_tasks' = Tail(hook_tasks)
    /\ buffer' = IF is_printable(Head(hook_tasks).key)
                 THEN BufferAppend(buffer, <<Head(hook_tasks).key>>) ELSE buffer
    /\ UNCHANGED <<kind, validator, choice_means_stop, response, warning, listener,
                   fed, interrupted, task_exc, accepted, last_call>>
    /\ UNCHANGED <<menuVars, selVars>>

\* UserInput.buffer_as_string: "".join of the buffer, with on_screen and
\* is_secret one "?" per character
RECURSIVE Join(_)
Join(buf) == IF buf = <<>> THEN <<>> ELSE Head(buf) \o Join(Tail(buf))

BufferAsString(buf, on_screen, is_secret) ==
    IF on_screen /\ is_secret THEN Join([i \in 1..Len(buf) |-> <<"?">>]) ELSE Join(buf)

\* the buffer after a validation that did not accept: UserInput._interact_validate
\* line 65, FileInput._interact_validate has no such branch
BufferAfterRejection(k, buf) == IF k = "UserInput" THEN <<>> ELSE buf

\* UserInput._interact_validate and FileInput._interact_validate
RunInputValidate(fits) ==
    /\ Runs("_interact_validate")
    /\  LET r == BufferAsString(buffer, FALSE, FALSE)
            verdict == Verdict(validator, r, fits)
        IN  /\ status' = IF verdict = "warn"
                         THEN [status EXCEPT !["A"] = WarnedStatus(@)] ELSE status
            /\ warning' = IF verdict = "warn" THEN "invalid" ELSE warning
            /\ task_exc' = IF verdict = "raise" THEN "AssertionError" ELSE task_exc
            /\ response' = IF verdict = "accept"
                           THEN [committed |-> TRUE, value |-> r] ELSE response
            /\ accepted' = (accepted \/ verdict = "accept")
            /\ buffer' = IF verdict \in {"reject", "warn"}
                         THEN BufferAfterRejection(kind, buffer) ELSE buffer
            /\ hook_tasks' = IF verdict = "accept"
                             THEN Dispatch(Tail(hook_tasks), "ControlC")
                             ELSE Tail(hook_tasks)
    /\ UNCHANGED <<kind, validator, choice_means_stop, listener, fed, interrupted,
                   last_call>>
    /\ UNCHANGED <<menuRest, selVars>>

\* _interact_buffer_append called with a printable key whose data is `data`
BufferAppendCall(data) ==
    /\ kind \in InputKinds
    /\ buffer' = BufferAppend(buffer, data)
    /\ last_call' = "_interact_buffer_append"
    /\ UNCHANGED <<kind, validator, choice_means_stop, response, warning, listener,
                   hook_tasks, fed, interrupted, task_exc, accepted>>
    /\ UNCHANGED <<menuVars, selVars>>

\* kb.run() returns, interactivity returns and the block of handle_prompt
\* ends: BasePrompt.__exit__ and Menu.run, lines 133-136
InteractEnds ==
    /\ Interacting
    /\ listener.stopped
    /\ hook_tasks = <<>>
    /\ listener' = [listener EXCEPT !.st = "returned"]
    /\ PromptExit("none")
    /\ UNCHANGED <<kind, validator, choice_means_stop, buffer, response, warning,
                   hook_tasks, fed, interrupted, task_exc, accepted, last_call>>
    /\ UNCHANGED selVars

\* the block of a prompt without keys (the Notes, a linked prompt) ends
OtherPromptExit ==
    /\ run.pc = "body"
    /\ Current # "A"
    /\ PromptExit("none")
    /\ UNCHANGED <<promptVars, selVars>>

\* ============================================= prompts/input.py: FileInput
\* The directory tree the FileInput looks at: the working directory is the
\* root directory, which holds the file a and the directory b, which holds the
\* file a.  A path is [abs, names], its names sequences of characters; no
\* entry is hidden and no name has capital letters.
Dirs == { <<>>, << <<"b">> >> }
Files == { << <<"a">> >>, << <<"b">>, <<"a">> >> }

PathTypes == {"ANY", "FILE", "DIRECTORY"}

\* the keys a FileInput or UserInput is sent, and the data of the printable ones
FileKeys == {"a", "b", "/", "Backslash", "Quote", "PageUp", "PageDown", "Tab", "Backspace"}
KeyData(key) ==
    CASE key = "Backslash" -> "\\"
      [] key = "Quote" -> "\""
      [] OTHER -> key

VARIABLES
    root,           \* FileInput._root
    suggestions,    \* FileInput._suggestions, as a set: iterdir gives no order
    current_page,   \* FileInput._current_page
    page_size,      \* FileInput.page_size
    path_type,      \* FileInput.path_type
    file_key,       \* history: the key dispatched last ("none" before the first)
    file_exc        \* what a callback of the last key raised ("none": all returned)

fileVars == <<root, suggestions, current_page, page_size, path_type, file_key, file_exc>>

Cwd == [abs |-> TRUE, names |-> <<>>]

FileInit ==
    /\ root = Cwd
    /\ suggestions = {}
    /\ current_page = 1
    /\ page_size = 1
    /\ path_type = "ANY"
    /\ file_key = "none"
    /\ file_exc = "none"

\* pathlib.Path(s): the names between the slashes of s, absolute when s
\* starts with a slash
RECURSIVE SplitNames(_, _)
SplitNames(s, cur) ==
    IF s = <<>> THEN (IF cur = <<>> THEN <<>> ELSE <<cur>>)
    ELSE IF Head(s) = "/"
    THEN (IF cur = <<>> THEN <<>> ELSE <<cur>>) \o SplitNames(Tail(s), <<>>)
    ELSE SplitNames(Tail(s), Append(cur, Head(s)))

Path(s) == [abs |-> (s # <<>> /\ Head(s) = "/"), names |-> SplitNames(s, <<>>)]

\* Path.as_posix
RECURSIVE JoinNames(_)
JoinNames(names) ==
    IF names = <<>> THEN <<>>
    ELSE IF Len(names) = 1 THEN Head(names)
    ELSE Head(names) \o <<"/">> \o JoinNames(Tail(names))

AsPosix(p) ==
    IF p.names = <<>> THEN (IF p.abs THEN <<"/">> ELSE <<".">>)
    ELSE (IF p.abs THEN <<"/">> ELSE <<>>) \o JoinNames(p.names)

\* Path.parent
Parent(p) == IF p.names = <<>> THEN p ELSE [p EXCEPT !.names = SubSeq(@, 1, Len(@) - 1)]

\* Path.is_dir, Path.is_file and Path.iterdir; the working directory is the root
IsDir(p) == p.names \in Dirs
IsFile(p) == p.names \in Files
IterDir(p) ==
    {[abs |-> p.abs, names |-> n] : n \in
        {m \in Dirs \cup Files :
            Len(m) = Len(p.names) + 1 /\ SubSeq(m, 1, Len(p.names)) = p.names}}

\* str.startswith
StartsWith(s, prefix) ==
    Len(prefix) <= Len(s) /\ SubSeq(s, 1, Len(prefix)) = prefix

\* the state of a FileInput that its key callbacks read and write
FileState ==
    [buffer |-> buffer, root |-> root, suggestions |-> suggestions,
     current_page |-> current_page, exc |-> "none"]

\* FileInput.max_pages, lines 150-154
max_pages(n, size) == (n \div size) + (IF n % size # 0 THEN 1 ELSE 0)

\* FileInput._update_suggestions, lines 156-172; iterdir raises when the root
\* is no directory, after line 159 has emptied the suggestions
UpdateSuggestions(f, t) ==
    IF ~IsDir(f.root)
    THEN [f EXCEPT !.suggestions = {}, !.exc = "NotADirectoryError"]
    ELSE [f EXCEPT !.suggestions =
            {s \in IterDir(f.root) :
                /\ ~(t = "FILE" /\ ~IsFile(s))
                /\ ~(t = "DIRECTORY" /\ ~IsDir(s))
                /\ StartsWith(AsPosix(s), BufferAsString(f.buffer, FALSE, FALSE))}]

\* FileInput.root (setter), lines 144-148
SetRoot(f, value) == [f EXCEPT !.current_page = 1, !.root = value]

\* FileInput._interact_buffer_append, lines 174-187
FileBufferAppend(f, key) ==
    UpdateSuggestions(
        IF key = "Backslash"
        THEN LET g == [f EXCEPT !.buffer = Append(@, <<"/">>)]
             IN  SetRoot(g, Path(BufferAsString(g.buffer, FALSE, FALSE)))
        ELSE IF key = "Quote" THEN f
        ELSE IF is_printable(key)
        THEN [f EXCEPT !.buffer = Append(@, <<KeyData(key)>>), !.current_page = 1]
        ELSE f,
        path_type)

\* FileInput._interact_buffer_remove, lines 189-197
FileBufferRemove(f) ==
    IF f.buffer = <<>> THEN f
    ELSE LET g == [f EXCEPT !.buffer = SubSeq(@, 1, Len(@) - 1)]
         IN  UpdateSuggestions(
                IF f.buffer[Len(f.buffer)] = <<"/">> THEN SetRoot(g, Parent(g.root)) ELSE g,
                path_type)

\* FileInput._interact_accept_next_suggestion, lines 199-210, s being
\* _suggestions[0]
FileAcceptSuggestion(f, s) ==
    LET g == IF IsDir(s) THEN SetRoot(f, s) ELSE f
    IN  UpdateSuggestions([g EXCEPT !.buffer = SetBuffer(<<>>, AsPosix(s))], path_type)

\* FileInput._interact_update_root, lines 212-215
FileUpdateRoot(f, key) ==
    LET g == [f EXCEPT !.buffer = Append(@, <<KeyData(key)>>)]
    IN  SetRoot(g, Path(BufferAsString(g.buffer, FALSE, FALSE)))

\* FileInput._interact_page, lines 227-233
FilePage(f, key) ==
    IF key = "PageUp"
    THEN [f EXCEPT !.current_page = IF @ - 1 > 1 THEN @ - 1 ELSE 1]
    ELSE IF key = "PageDown"
    THEN LET m == max_pages(Cardinality(f.suggestions), page_size)
         IN  [f EXCEPT !.current_page = IF m < @ + 1 THEN m ELSE @ + 1]
    ELSE f

\* the callback FileInput.interactivity binds under the key itself (lines
\* 241-244), s being the suggestion Tab takes
FileOwnHook(f, key, s) ==
    CASE key = "Backspace" -> FileBufferRemove(f)
      [] key = "Tab" -> IF f.suggestions = {} THEN f ELSE FileAcceptSuggestion(f, s)
      [] key = "/" -> FileUpdateRoot(f, key)
      [] key \in {"PageUp", "PageDown"} -> FilePage(f, key)
      [] OTHER -> f

\* what an exception of an earlier callback of the key leaves in exc
KeepExc(f, g) == IF f.exc # "none" THEN [g EXCEPT !.exc = f.exc] ELSE g

\* _trigger_hooks: the callbacks bound under the key run, then those bound
\* under Any (line 240; live.refresh changes nothing here)
FileDispatch(f, key, s) ==
    LET own == FileOwnHook(f, key, s)
    IN  KeepExc(own, FileBufferAppend([own EXCEPT !.exc = "none"], key))

\* FileInput(path_type=t, page_size=size): the buffer is the working
\* directory, then line 119
NewFileInput(t, size) ==
    /\ NewInput("FileInput", <<"/">>, "is_path_type")
    /\ path_type' = t
    /\ page_size' = size
    /\ suggestions' = UpdateSuggestions([FileState EXCEPT !.buffer = buffer'], t).suggestions
    /\ UNCHANGED <<root, current_page, file_key, file_exc>>

\* a key is dispatched to the FileInput and its callbacks have run
FileKeyPress(key) ==
    /\ kind = "FileInput"
    /\ Len(buffer) < MaxBuffer
    /\ \E s \in (IF suggestions = {} THEN {Cwd} ELSE suggestions) :
          LET f == FileDispatch(FileState, key, s)
          IN  /\ buffer' = f.buffer
              /\ root' = f.root
              /\ suggestions' = f.suggestions
              /\ current_page' = f.current_page
              /\ file_exc' = f.exc
    /\ file_key' = key
    /\ UNCHANGED <<page_size, path_type>>
    /\ UNCHANGED <<kind, validator, choice_means_stop, response, warning, listener,
                   hook_tasks, fed, interrupted, task_exc, accepted, last_call>>

\* a key is dispatched to the UserInput: _interact_buffer_append and, for
\* Backspace, the lambda of line 82
UserKeyPress(key) ==
    /\ kind = "UserInput"
    /\ Len(buffer) < MaxBuffer
    /\ buffer' = IF key = "Backspace"
                 THEN (IF buffer = <<>> THEN buffer ELSE SubSeq(buffer, 1, Len(buffer) - 1))
                 ELSE IF is_printable(key) THEN BufferAppend(buffer, <<KeyData(key)>>)
                 ELSE buffer
    /\ file_key' = key
    /\ UNCHANGED <<root, suggestions, current_page, page_size, path_type, file_exc>>
    /\ UNCHANGED <<kind, validator, choice_means_stop, response, warning, listener,
                   hook_tasks, fed, interrupted, task_exc, accepted, last_call>>

\* ================================================= _utils.py: invoke
\* A callable is described by what inspect sees of it: a plain function or a
\* bound method (whose definition has self before its `pos` parameters), with
\* `pos` positional-or-keyword and `kwonly` keyword-only parameters, none with
\* a default; wrapped or not in a functools.partial that binds `args`
\* positional arguments (and the keyword-only parameters).
Callables ==
    {f \in [kind : {"function", "method"}, partial : BOOLEAN,
            pos : 0..MaxParams, kwonly : 0..1, args : 0..MaxParams] :
        /\ f.args <= f.pos
        /\ ~f.partial => f.args = 0}

NoCallable == [kind |-> "function", partial |-> FALSE, pos |-> 0, kwonly |-> 0, args |-> 0]

VARIABLES
    function,   \* the callable given to invoke
    call        \* the last invoke: [given, n, passed, raised], given = number of *params

utilVars == <<function, call>>

UtilInit ==
    /\ function = NoCallable
    /\ call = [given |-> 0, n |-> 0, passed |-> 0, raised |-> "none"]

\* _count_parameters(func), lines 28-29: the parameters of inspect.signature
\* that are not keyword-only.  `bound` tells whether func is a bound method,
\* whose signature has no self, or the function a method is defined as.
CountSignature(f, bound) ==
    IF f.kind = "method" /\ ~bound THEN f.pos + 1 ELSE f.pos

\* fault model: count_parameters that takes off the arguments a partial binds
CountParametersLess(f) == f.pos - f.args

\* count_parameters, lines 14-22
CountParameters(f) ==
    IF f.partial
    THEN CountSignature(f, TRUE) + f.args
    ELSE IF f.kind = "method"
    THEN CountSignature(f, FALSE) - 1
    ELSE CountSignature(f, TRUE)

Min(a, b) == IF a < b THEN a ELSE b

\* invoke(function, *params), lines 34-35: params[:parameter_count] is passed;
\* the call raises TypeError unless the positional arguments, with those of
\* the partial, are as many as the parameters
InvokeResult(f, given) ==
    LET n == CountParameters(f)
        passed == Min(n, given)
    IN  [given |-> given, n |-> n, passed |-> passed,
         raised |-> IF f.args + passed = f.pos THEN "none" ELSE "TypeError"]

\* await invoke(f, *params) with `given` params
Invoke(f, given) ==
    /\ function' = f
    /\ call' = InvokeResult(f, given)

\* ================================================= prompts/info.py: Spinner
\* Prompt A of the menu is a Spinner.  Its interactivity starts the background
\* callable in a thread and shows the icons in turn until the thread is dead.
SpinnerLocations == {"MARKER", "DETAIL"}
NumIcons == 4

VARIABLES
    spinner,    \* [pc, location, _marker_static, detail, _marker, bg, icon]
    ticks       \* history: how many times the loop of interactivity has run

spinVars == <<spinner, ticks>>

SpinInit ==
    /\ spinner = [pc |-> "none", location |-> "MARKER", _marker_static |-> "None",
                  detail |-> "None", _marker |-> "unset", bg |-> "unstarted", icon |-> 0]
    /\ ticks = 0

\* BasePrompt.marker (getter), lines 56-59
marker(s) == s._marker_static

\* update_visible_icon, lines 36-40: setattr(self, "marker" or "detail", icon);
\* the setter of marker assigns _marker_static (lines 61-63)
UpdateVisibleIcon(s, i) ==
    IF s.location = "MARKER"
    THEN [s EXCEPT !._marker_static = "icon", !.icon = i]
    ELSE [s EXCEPT !.detail = "icon", !.icon = i]

\* interactivity, line 58: self._marker = None, an attribute of its own
ClearMarker(s) == [s EXCEPT !._marker = "None"]

\* Spinner(prompt=..., background=..., location=loc)
NewSpinner(loc) ==
    /\ spinner.pc = "none"
    /\ spinner' = [spinner EXCEPT !.pc = "made", !.location = loc]
    /\ ticks' = ticks

\* interactivity, lines 36-46: the first icon is shown, the thread is started
SpinnerStart ==
    /\ run.pc = "body"
    /\ Current = "A"
    /\ spinner.pc = "made"
    /\ spinner' = [UpdateVisibleIcon(spinner, 1) EXCEPT !.pc = "loop", !.bg = "alive"]
    /\ ticks' = ticks

\* the background callable returns (or raises) in its thread
BackgroundEnds ==
    /\ spinner.bg = "alive"
    /\ spinner' = [spinner EXCEPT !.bg = "dead"]
    /\ ticks' = ticks

\* interactivity, lines 51-56: the thread is alive, the next icon is shown
SpinnerTick ==
    /\ spinner.pc = "loop"
    /\ spinner.bg = "alive"
    /\ ticks < MaxTicks
    /\ spinner' = UpdateVisibleIcon(spinner, (spinner.icon % NumIcons) + 1)
    /\ ticks' = ticks + 1

\* interactivity, lines 51 and 58: the thread is dead, interactivity returns,
\* and the block of handle_prompt ends
SpinnerReturns ==
    /\ run.pc = "body"
    /\ Current = "A"
    /\ spinner.pc = "loop"
    /\ spinner.bg = "dead"
    /\ spinner' = [ClearMarker(spinner) EXCEPT !.pc = "returned"]
    /\ ticks' = ticks
    /\ PromptExit("none")

\* ------------------------------------------------- the steps of each part
\* what a step of one part of the program leaves alone
outsideKb == <<menuVars, selVars, promptVars, utilVars, spinVars, fileVars>>
outsideMenu == <<kbVars, selVars, promptVars, utilVars, spinVars, fileVars>>
outsideSelect == <<kbVars, menuVars, promptVars, utilVars, spinVars, fileVars>>
outsidePrompt == <<kbVars, utilVars, spinVars, fileVars>>
outsideUtil == <<kbVars, menuVars, selVars, promptVars, spinVars, fileVars>>
outsideSpinner == <<kbVars, selVars, promptVars, utilVars, fileVars>>
outsideFile == <<kbVars, menuVars, selVars, utilVars, spinVars>>

\* the code around the menu
MenuCalls ==
    \/ \E given \in {<<"A">>, <<"A", "B">>}, outro \in BOOLEAN, tr \in [{"A"} -> BOOLEAN] :
          MenuNew(given, outro, tr) /\ UNCHANGED outsideMenu
    \/ \E l \in {<<"A", "B">>, <<"A", "C">>, <<"B", "C">>}, v \in Validators :
          Link(l[1], l[2], v) /\ UNCHANGED outsideMenu
    \/ \E n \in NextPrompts, after \in {"None", "intro", "A", "outro"} :
          /\ after \in {"None"} \cup {prompts[i] : i \in DOMAIN prompts}
          /\ Add(n, after) /\ UNCHANGED outsideMenu
    \/ RunStart /\ UNCHANGED outsideMenu

\* Menu.run
MenuRun ==
    \/ PromptEnter /\ UNCHANGED outsideMenu
    \/ RunExhausted /\ UNCHANGED outsideMenu
    \/ SetWarning /\ UNCHANGED outsideMenu
    \/ Terminate /\ UNCHANGED outsideMenu
    \/ \E exc \in Outcomes : PromptExit(exc) /\ UNCHANGED outsideMenu

\* ------------------------------------------------------------ specifications

\* the calls made by the code around a listener that is used for one cycle
KbCalls ==
    \/ \E k \in BindKeys, h \in UserHooks : BindAllowed /\ Bind(k, h) /\ UNCHANGED outsideKb
    \/ \E k \in Keys : Simulate(k) /\ UNCHANGED outsideKb
    \/ \E k \in ConcreteKeys : FeedKeys(k) /\ UNCHANGED outsideKb
    \/ \E nw \in BOOLEAN : ExtStop(nw) /\ UNCHANGED outsideKb

\* the event loop
KbLoop ==
    \/ RunTaskStep /\ UNCHANGED outsideKb
    \/ RunExtStep /\ UNCHANGED outsideKb
    \/ RunDiscard /\ UNCHANGED outsideKb
    \/ RunStartWake /\ UNCHANGED outsideKb
    \/ \E t \in 1..MaxTasks : SlowCompletes(t) /\ UNCHANGED outsideKb
    \/ \E c \in 0..MaxTasks : WaitDone(c) /\ UNCHANGED outsideKb
    \/ \E c \in 0..MaxTasks : WaitTimeout(c) /\ UNCHANGED outsideKb

StartOnce ==
    \E ig \in BOOLEAN : background_done = 0 /\ Start(ig) /\ UNCHANGED outsideKb

\* the code restarts a listener that was started before
StartAgain ==
    \E ig \in BOOLEAN :
        background_done # 0 /\ Len(starts) < MaxStarts /\ Start(ig) /\ UNCHANGED outsideKb

\* the handles of the loop's queue
KbLoopRun == RunTaskStep \/ RunExtStep \/ RunDiscard \/ RunStartWake

vars == <<kbVars, menuVars, selVars, promptVars, utilVars, spinVars, fileVars>>
Init == KbInit /\ MenuInit /\ SelectInit /\ PromptInit /\ UtilInit /\ SpinInit /\ FileInit
Next == StartOnce \/ KbCalls \/ KbLoop

\* a listener used for one start/stop cycle
Spec == Init /\ [][Next]_vars

\* the same, on a loop that runs: a queued handle is executed, a timer that is
\* due fires, a wait whose tasks have all finished returns
SpecLive ==
    /\ Init /\ [][Next]_vars
    /\ WF_vars(KbLoopRun /\ UNCHANGED outsideKb)
    /\ WF_vars((\E c \in 0..MaxTasks : WaitTimeout(c)) /\ UNCHANGED outsideKb)
    /\ WF_vars((\E c \in 0..MaxTasks : WaitDone(c)) /\ UNCHANGED outsideKb)

\* a listener that the code also starts again
NextRestart == StartOnce \/ StartAgain \/ KbCalls \/ KbLoop
SpecRestart == Init /\ [][NextRestart]_vars

\* a menu that is built, extended and run, with no listener
NextMenu == MenuCalls \/ MenuRun
SpecMenu == Init /\ [][NextMenu]_vars

\* a menu that is built and extended by add calls, with any of its prompts as
\* `after`, and not run
NextAdd ==
    \/ \E given \in {<<"A">>, <<"A", "B">>}, outro \in BOOLEAN, tr \in [{"A"} -> BOOLEAN] :
          MenuNew(given, outro, tr) /\ UNCHANGED outsideMenu
    \/ \E n \in NextPrompts, after \in {"None"} \cup PromptIds :
          /\ after \in {"None"} \cup {prompts[i] : i \in DOMAIN prompts}
          /\ Len(prompts) < MaxAdded
          /\ AddCall(n, after) /\ UNCHANGED outsideMenu
SpecAdd == Init /\ [][NextAdd]_vars

\* a Select that is constructed and then receives keys
NextSelect ==
    \/ \E specs \in ChoiceLists(MaxChoices), m \in Modes :
          SelectNew(specs, m) /\ UNCHANGED outsideSelect
    \/ \E step \in {1, -1} : FocusMove(step) /\ UNCHANGED outsideSelect
    \/ ToggleSelect /\ UNCHANGED outsideSelect
    \/ \E c \in 1..MaxChoices : HotkeySelect(c) /\ UNCHANGED outsideSelect
SpecSelect == Init /\ [][NextSelect]_vars

\* a menu whose prompt A listens for keys: the prompt is made, the menu is
\* built around it, A may be linked to B, and the menu is run
NextPrompt ==
    \/ \E specs \in {<<StrChoice, StrChoice, StrChoice>>, <<BareOption, BareOption>>},
          m \in Modes, v \in ValidatorsOf("Select") :
          NewSelect(specs, m, v) /\ UNCHANGED <<outsidePrompt, menuVars>>
    \/ \E default \in 1..2, stop \in 0..2 :
          NewConfirm(default, stop) /\ UNCHANGED <<outsidePrompt, menuVars>>
    \/ \E prefill \in {<<>>, <<"a">>}, v \in ValidatorsOf("UserInput") :
          NewInput("UserInput", prefill, v) /\ UNCHANGED <<outsidePrompt, menuVars>>
    \/ NewInput("FileInput", <<"/">>, "is_path_type") /\ UNCHANGED <<outsidePrompt, menuVars>>
    \/ kind # "None" /\ MenuNew(<<"A">>, FALSE, [p \in {"A"} |-> FALSE]) /\ UNCHANGED outsideMenu
    \/ \E v \in {"approve"} : Link("A", "B", v) /\ UNCHANGED outsideMenu
    \/ RunStart /\ UNCHANGED outsideMenu
    \/ PromptEnter /\ UNCHANGED outsideMenu
    \/ RunExhausted /\ UNCHANGED outsideMenu
    \/ OtherPromptExit /\ UNCHANGED outsidePrompt
    \/ Interact /\ UNCHANGED outsidePrompt
    \/ \E key \in TerminalKeys : fed < MaxFeeds /\ Feed(key) /\ UNCHANGED outsidePrompt
    \/ RunRefresh /\ UNCHANGED outsidePrompt
    \/ RunStop /\ UNCHANGED outsidePrompt
    \/ RunHighlighter /\ UNCHANGED outsidePrompt
    \/ RunTerminate /\ UNCHANGED outsidePrompt
    \/ RunSelectValidate /\ UNCHANGED outsidePrompt
    \/ RunBufferAppend /\ UNCHANGED outsidePrompt
    \/ \E fits \in BOOLEAN : RunInputValidate(fits) /\ UNCHANGED outsidePrompt
    \/ InteractEnds /\ UNCHANGED outsidePrompt
SpecPrompt == Init /\ [][NextPrompt]_vars

\* the str values of up to n characters
Strs(n) == UNION {[1..k -> {"a", "b"}] : k \in 0..n}

\* a UserInput whose buffer is written by set_buffer, by letters and by pasted
\* text
NextBuffer ==
    \/ \E prefill \in Strs(2) :
          NewInput("UserInput", prefill, "noop_always_valid") /\ UNCHANGED <<outsidePrompt, menuVars>>
    \/ \E s \in Strs(MaxBuffer) : SetBufferCall(s) /\ UNCHANGED outsidePrompt
    \/ \E data \in Strs(2) \ {<<>>} :
          Len(buffer) < MaxBuffer /\ BufferAppendCall(data) /\ UNCHANGED outsidePrompt
SpecBuffer == Init /\ [][NextBuffer]_vars

\* invoke called with any callable and up to two context arguments
NextInvoke ==
    \E f \in Callables, given \in 0..MaxGiven : Invoke(f, given) /\ UNCHANGED outsideUtil
SpecInvoke == Init /\ [][NextInvoke]_vars

\* a menu whose prompt A is a Spinner, transient or not
NextSpinner ==
    \/ \E loc \in SpinnerLocations :
          NewSpinner(loc) /\ UNCHANGED <<outsideSpinner, menuVars>>
    \/ \E tr \in BOOLEAN :
          /\ spinner.pc = "made"
          /\ MenuNew(<<"A">>, FALSE, [p \in {"A"} |-> tr])
          /\ UNCHANGED outsideMenu
    \/ RunStart /\ UNCHANGED outsideMenu
    \/ PromptEnter /\ UNCHANGED outsideMenu
    \/ RunExhausted /\ UNCHANGED outsideMenu
    \/ OtherPromptExit /\ UNCHANGED outsidePrompt
    \/ SpinnerStart /\ UNCHANGED <<outsideSpinner, menuVars>>
    \/ BackgroundEnds /\ UNCHANGED <<outsideSpinner, menuVars>>
    \/ SpinnerTick /\ UNCHANGED <<outsideSpinner, menuVars>>
    \/ SpinnerReturns /\ UNCHANGED outsideSpinner
SpecSpinner == Init /\ [][NextSpinner]_vars

\* a FileInput or a UserInput that is sent keys
NextFile ==
    \/ \E t \in PathTypes, size \in 1..MaxPageSize :
          NewFileInput(t, size) /\ UNCHANGED outsideFile
    \/ /\ NewInput("UserInput", <<>>, "noop_always_valid")
       /\ UNCHANGED <<outsideFile, fileVars>>
    \/ \E key \in FileKeys : FileKeyPress(key) /\ UNCHANGED <<outsideFile, selVars>>
    \/ \E key \in FileKeys : UserKeyPress(key) /\ UNCHANGED <<outsideFile, selVars>>
SpecFile == Init /\ [][NextFile]_vars

\* ------------------------------------------------------------------ claims
IsDispatch(k) == Simulate(k) \/ FeedKeys(k)

\* the hooks of the tasks a step creates, in creation order
SpawnedHooks == [i \in 1..(Len(tasks') - Len(tasks)) |-> tasks'[Len(tasks) + i].hook]
SpawnedSteps == [i \in 1..(Len(tasks') - Len(tasks)) |-> <<"step", Len(tasks) + i>>]

\* the hooks registered under key k or under the wildcard, in registration order
RegisteredFor(k) ==
    LET sel == SelectSeq(registered, LAMBDA r : r[1] \in {k, "Any"})
    IN [i \in 1..Len(sel) |-> sel[i][2]]

InvokedInOrder == \A i, j \in 1..Len(invoked) : i < j => invoked[i] < invoked[j]

\* C1 (as amended): one dispatch of a concrete key k on an accepting listener
\* creates one task per binding under k and per binding under Any, first those
\* under k in their registration order, then those under Any in theirs, and
\* none for a callback bound only under another key; the tasks enter the
\* loop's queue in that order, and hooks are called at most once per task, in
\* the order the tasks were created.
C1_DispatchKeyThenAny ==
    /\ [][\A k \in ConcreteKeys :
            is_accepting_keys /\ IsDispatch(k) =>
                /\ SpawnedHooks = key_hooks[k] \o key_hooks["Any"]
                /\ ready' = ready \o SpawnedSteps]_vars
    /\ []InvokedInOrder

\* C1 as stated: the invocations are started in registration order.
C1_RegistrationOrder ==
    [][\A k \in ConcreteKeys :
          is_accepting_keys /\ IsDispatch(k) => SpawnedHooks = RegisteredFor(k)]_vars

\* C1 witness: Enter was dispatched with cbA under Enter, slow under Any and
\* stop under ControlC; cbA then slow were called, stop was not.
C1_Witness ==
    /\ key_hooks = [k \in Keys |-> IF k = "Enter" THEN <<"cbA">>
                                   ELSE IF k = "Any" THEN <<"slow">> ELSE <<"stop">>]
    /\ Len(tasks) = 2 /\ tasks[1].hook = "cbA" /\ tasks[2].hook = "slow"
    /\ invoked = <<1, 2>>

\* C3: a key dispatched (read from the terminal or simulated) while the
\* listener is not accepting keys creates no task, queues nothing and calls
\* no hook.
C3_LateKeyDropped ==
    [][(~is_accepting_keys /\ \E k \in Keys : IsDispatch(k)) =>
          UNCHANGED <<tasks, ready, active_hooks, invoked>>]_vars

\* C3 witness: after stop, a key was ignored although a wildcard hook is bound,
\* and no task was ever created.
C3_Witness ==
    /\ warned = "shut"
    /\ background_done \in doneSet
    /\ key_hooks["Any"] # <<>>
    /\ tasks = <<>>

\* the first start() has returned
StartReturned == Len(starts) >= 1 /\ starts[1].st = "returned"

\* C2: once `await kb.stop()` made from outside has returned, the listener
\* accepts no keys and its Event is set; and a stop() that was called returns,
\* after which start() returns too.
C2_StartStopTerminates ==
    /\ [](ext.returned => ~is_accepting_keys /\ background_done \in doneSet)
    /\ ((ext.st # "idle") ~> ext.returned)
    /\ (ext.returned ~> StartReturned)

\* C2 witness: start, then stop before any key: no key was dispatched, stop
\* has returned and so has start.
C2_Witness ==
    /\ ext.returned
    /\ tasks = <<>> /\ warned = "none"
    /\ StartReturned

\* the user bound no stop of their own and nothing outside called stop
OnlyStartBindsStop ==
    /\ \A k \in Keys : \A i \in 1..Len(key_hooks[k]) : key_hooks[k][i] # "stopNoWait"
    /\ ext.st = "idle" /\ ~ext.returned

\* C4: after start(ignore_control_c=False) a dispatch of ControlC on the
\* accepting listener creates a task for stop, and once such a task exists the
\* Event is eventually set and start() returns; after
\* start(ignore_control_c=True) a dispatch of ControlC creates no task for
\* stop, and as long as stop is neither bound by the caller nor called from
\* outside the Event is never set.
C4_ControlCStops ==
    /\ [][(background_done # 0 /\ is_accepting_keys /\ IsDispatch("ControlC")) =>
            IF starts[1].ignore
            THEN \A i \in 1..Len(SpawnedHooks) : SpawnedHooks[i] # "stop"
            ELSE \E i \in 1..Len(SpawnedHooks) : SpawnedHooks[i] = "stop"]_vars
    /\ [](background_done # 0 /\ starts[1].ignore /\ OnlyStartBindsStop => doneSet = {})
    /\ ((\E t \in 1..Len(tasks) : tasks[t].hook = "stop")
           ~> (background_done \in doneSet /\ StartReturned))

\* C4 witness: started with ignore_control_c=True, ControlC was dispatched to a
\* wildcard hook, which ran; the Event is not set.
C4_Witness ==
    /\ background_done # 0 /\ starts[1].ignore
    /\ key_hooks["ControlC"] = <<>> /\ key_hooks["Enter"] = <<>> /\ key_hooks["Any"] = <<"cbA">>
    /\ Len(tasks) = 1 /\ tasks[1].st = "done"
    /\ is_accepting_keys
    /\ doneSet = {}

\* C5 as stated: a listener that was started begins no second cycle (the second
\* start() fails).
C5_AtMostOneCycle == Len(starts) <= 1

\* C6 as stated: simulate(key) on a listener that was never started raises.
C6_SimulateBeforeStartFails ==
    [][(background_done = 0 /\ \E k \in Keys : Simulate(k)) => err' = "AssertionError"]_vars

\* caller c (0: the coroutine outside, else a task) begins stop(no_wait=True)
NoWaitStopBegins(c) ==
    IF c = 0
    THEN background_done # 0 /\ ExtStop(TRUE)
    ELSE /\ c \in 1..Len(tasks)
         /\ ready # <<>> /\ Head(ready) = <<"step", c>>
         /\ tasks[c].st = "pending" /\ ~tasks[c].cancel /\ tasks[c].hook = "stopNoWait"
         /\ RunTaskStep

\* caller c is resumed inside stop(no_wait=True), after its sleep(0)
NoWaitStopResumes(c) ==
    /\ ready # <<>> /\ Head(ready) = <<"step", c>>
    /\ IF c = 0
       THEN ext.no_wait /\ RunExtStep
       ELSE /\ c \in 1..Len(tasks)
            /\ tasks[c].st = "ready" /\ ~tasks[c].cancel /\ tasks[c].hook = "stopNoWait"
            /\ RunTaskStep

\* a step sets the listener's Event, which was not set
FiresDone == background_done \notin doneSet /\ background_done \in doneSet'

\* the unfinished tasks of _active_hooks other than c
InFlightOthers(c) == {h \in active_hooks \ {c} : ~Finished(tasks, h)}

CancelsOthers(c) ==
    /\ \A h \in InFlightOthers(c) : tasks'[h].cancel
    /\ c # 0 => ~tasks'[c].cancel

\* C7 (as amended): stop(no_wait=True) requests the cancellation of every
\* unfinished task of _active_hooks other than the task that executes stop,
\* and never of that task.  When _active_hooks holds another task, the Event
\* is not set in that step: stop yields once, queued behind the wake-ups of the
\* cancelled tasks, and sets the Event when it is resumed.  When _active_hooks
\* holds no other task, stop sets the Event at once, without yielding.
C7_NoWaitCancelsThenYields ==
    /\ [][\A c \in 0..MaxTasks :
            NoWaitStopBegins(c) =>
                /\ CancelsOthers(c)
                /\ IF active_hooks \ {c} = {}
                   THEN background_done \in doneSet'
                   ELSE /\ ~FiresDone
                        /\ ready' # <<>>
                        /\ ready'[Len(ready')] = <<"step", c>>]_vars
    /\ [][\A c \in 0..MaxTasks : NoWaitStopResumes(c) => background_done \in doneSet']_vars

\* C7 as stated: the Event is set only after stop has yielded once.
C7_AlwaysYields ==
    [][\A c \in 0..MaxTasks : NoWaitStopBegins(c) => CancelsOthers(c) /\ ~FiresDone]_vars

\* C7 witness: a task running stop(no_wait=True) has requested the cancellation
\* of another task that had not finished, and sleeps; the Event is not set.
C7_Witness ==
    \E c, h \in 1..Len(tasks) :
        /\ tasks[c].hook = "stopNoWait" /\ tasks[c].st = "ready" /\ ~tasks[c].cancel
        /\ h \in tasks[c].waitOn /\ tasks[h].cancel /\ ~Finished(tasks, h)
        /\ background_done \notin doneSet

\* caller c begins stop() in its waiting variant
WaitStopBegins(c) ==
    IF c = 0
    THEN background_done # 0 /\ ExtStop(FALSE)
    ELSE /\ c \in 1..Len(tasks)
         /\ ready # <<>> /\ Head(ready) = <<"step", c>>
         /\ tasks[c].st = "pending" /\ ~tasks[c].cancel /\ tasks[c].hook = "stop"
         /\ RunTaskStep

\* the stop() that caller c executes has set the Event and returned
StopReturned(c) == IF c = 0 THEN ext.returned ELSE c \in 1..Len(tasks) /\ tasks[c].st = "done"

\* the task c that executed stop() was cancelled by a stop(no_wait=True), which
\* has set the Event
StopCancelled(c) ==
    c \in 1..Len(tasks) /\ tasks[c].st = "cancelled" /\ background_done \in doneSet

\* C8: a stop() in its waiting variant either sets the Event at once or waits
\* for the callbacks in flight, and every stop() that waits sets the Event in
\* the end (or is cancelled by a stop(no_wait=True) that sets it), whether or
\* not the callbacks it waits for ever finish and also when they are other
\* stop() calls that wait for it.
C8_WaitingStopSetsDone ==
    /\ [][\A c \in 0..MaxTasks :
            WaitStopBegins(c) => background_done \in doneSet' \/ Waiting(c)']_vars
    /\ \A c \in 0..MaxTasks : Waiting(c) ~> (StopReturned(c) \/ StopCancelled(c))

\* C8 witness: two stop() tasks wait for each other.
C8_Witness ==
    /\ Len(tasks) = 2
    /\ tasks[1].st = "waiting" /\ 2 \in tasks[1].waitOn
    /\ tasks[2].st = "waiting" /\ 1 \in tasks[2].waitOn

\* C9: entering the block of a prompt makes its status ACTIVE; when the block
\* ends without an exception and the prompt is still active (ACTIVE or WARNING),
\* its status becomes SUCCESS if the prompt is not transient and HIDDEN if it is.
C9_EnterActiveExitResolved ==
    /\ [][PromptEnter => status'[Current] = "ACTIVE"]_vars
    /\ [][(PromptExit("none") /\ is_active(Current)) =>
              status'[Current] = IF transient[Current] THEN "HIDDEN" ELSE "SUCCESS"]_vars

\* a transient prompt left the block from WARNING without an exception, after
\* a prompt that is not transient was resolved
C9_Witness ==
    /\ last_exit.prompt # "None"
    /\ transient[last_exit.prompt]
    /\ last_exit.before = "WARNING" /\ last_exit.exc = "none"
    /\ status[last_exit.prompt] = "HIDDEN"
    /\ status["intro"] = "SUCCESS" /\ ~transient["intro"]

\* C10: when the block of a prompt ends with a KeyboardInterrupt the status of
\* the prompt becomes CANCEL, whatever it was inside the block, and no link of
\* the prompt is called (the menu is left as it is).
C10_InterruptCancels ==
    [][PromptExit("KeyboardInterrupt") =>
          /\ status'[Current] = "CANCEL"
          /\ evaluated' = evaluated
          /\ prompts' = prompts]_vars

\* a prompt that has a link left the block with a KeyboardInterrupt while a
\* warning was shown
C10_Witness ==
    /\ last_exit.prompt # "None"
    /\ last_exit.exc = "KeyboardInterrupt"
    /\ last_exit.before = "WARNING"
    /\ linked_prompts[last_exit.prompt] # <<>>
    /\ status[last_exit.prompt] = "CANCEL"

\* C11: when the block of a prompt ends with an exception that is no
\* KeyboardInterrupt, the status of the prompt becomes ERROR, the exception is
\* kept in prompt.exception, and the exception does not leave the block:
\* Menu.run goes on to its check of the status, breaks and stops the display.
C11_ErrorCapturedSuppressed ==
    [][PromptExit("Exception") =>
          /\ status'[Current] = "ERROR"
          /\ exception'[Current] = "Exception"
          /\ run'.pc = "done" /\ live' = "stopped"]_vars

\* a prompt showing a warning left the block with an exception
C11_Witness ==
    /\ last_exit.prompt # "None"
    /\ last_exit.exc = "Exception" /\ last_exit.before = "WARNING"
    /\ status[last_exit.prompt] = "ERROR"
    /\ exception[last_exit.prompt] = "Exception"
    /\ run.pc = "done"

\* Menu.run has returned after a prompt that finished with CANCEL or ERROR
HaltedAt(i) ==
    /\ run.pc = "done" /\ run.idx = i /\ i <= Len(prompts)
    /\ Halts(status[prompts[i]])

\* the prompts Menu.run handled: those at the iterator's position or before
Handled(i) == {prompts[j] : j \in 1..i}

C13_LiveStoppedOnExit ==
    run.pc \in {"done", "raised"} => live = "stopped"

\* C14: in every state of a menu, after Menu(...) and after any add calls, the
\* intro is the first prompt of the sequence and the outro, if the menu has
\* one, is the last.
C14_IntroFirstOutroLast ==
    run.pc # "new" =>
        /\ prompts[1] = "intro"
        /\ has_outro => prompts[Len(prompts)] = "outro"

\* list.pop(i), i counted from 1
Without(ps, i) == SubSeq(ps, 1, i - 1) \o SubSeq(ps, i + 1, Len(ps))

\* the add placed prompt n at position i and changed nothing else
PlacedAt(n, i) ==
    /\ Len(prompts') = Len(prompts) + 1
    /\ i \in 1..Len(prompts')
    /\ prompts'[i] = n
    /\ Without(prompts', i) = prompts

\* the position of the last prompt that is not the outro
LastSubstantive(ps) ==
    CHOOSE i \in 1..Len(ps) :
        /\ ps[i] # "outro"
        /\ \A j \in (i + 1)..Len(ps) : ps[j] = "outro"

\* C15: add(p, after=a) places p right behind the (first) position of a and
\* changes nothing else; add(p) with `after` omitted places p right behind
\* the last prompt that is not the outro.
C15_AddPlacesAfter ==
    [][\A n \in NextPrompts :
          /\ \A a \in PromptIds :
                AddCall(n, a) => PlacedAt(n, Index(prompts, a) + 1)
          /\ AddCall(n, "None") => PlacedAt(n, LastSubstantive(prompts) + 1)]_vars

\* the block of the prompt at the iterator's position, which is the first
\* position of that prompt, ends normally with the prompt active
Resolves ==
    /\ run.pc = "body"
    /\ is_active(Current)
    /\ Index(prompts, Current) = run.idx
    /\ PromptExit("none")

NthTarget(p, n) ==
    LET i == CHOOSE i \in 1..Len(linked_prompts[p]) : linked_prompts[p][i].nth = n
    IN  linked_prompts[p][i].next_prompt

\* no validator of a link of p raises / every one approves
NoneRaises(p) ==
    \A i \in 1..Len(linked_prompts[p]) : linked_prompts[p][i].validator # "raise"
AllApprove(p) ==
    \A i \in 1..Len(linked_prompts[p]) : linked_prompts[p][i].validator = "approve"

ActivePrompts == {p \in PromptIds : is_active(p)}

\* C18: at every point of a run at most one prompt is active (ACTIVE or
\* WARNING), and a prompt is activated only when no prompt is active: the
\* prompt handled before has left the active states.
C18_OneActivePrompt ==
    /\ [](Cardinality(ActivePrompts) <= 1)
    /\ [][PromptEnter => ActivePrompts = {}]_vars

\* a second prompt shows a warning after the first was resolved
C18_Witness ==
    /\ run.pc = "body" /\ run.idx = 2
    /\ status["intro"] = "SUCCESS"
    /\ status[Current] = "WARNING"
    /\ ActivePrompts = {Current}

\* C19: in a SINGLE Select, after a focus move exactly one choice is selected
\* and it is the focused choice.
C19_SelectionFollowsFocus ==
    [][(mode = "SINGLE" /\ \E step \in {1, -1} : FocusMove(step)) =>
          \E c \in 1..Len(choices') :
             /\ Selected(choices') = {c}
             /\ Focused(choices') = {c}]_vars

\* C20: in a MULTI Select two presses of the space key in a row leave every
\* choice's is_selected as it was, one press changes nothing but is_selected of
\* the focused choice (and flips it when there are several choices), and in a
\* SINGLE Select the space key changes nothing.
C20_ToggleSelectTwiceRestores ==
    /\ []((sel_pc = "built" /\ mode = "MULTI") =>
             InputSelect(InputSelect(choices, mode), mode) = choices)
    /\ [][(mode = "MULTI" /\ ToggleSelect) =>
             LET h == Highlighted(choices)
             IN  /\ \A i \in 1..Len(choices) :
                      /\ choices'[i].is_highlighted = choices[i].is_highlighted
                      /\ i # h => choices'[i].is_selected = choices[i].is_selected
                 /\ (h # 0 /\ Len(choices) > 1) =>
                      choices'[h].is_selected = ~choices[h].is_selected]_vars
    /\ [][(mode = "SINGLE" /\ ToggleSelect) => choices' = choices]_vars

\* the space key has just switched off the only selected choice of a MULTI
\* Select that has other choices
C20_Witness ==
    /\ mode = "MULTI"
    /\ sel_key = "space"
    /\ sel_err = "none"
    /\ Len(choices) > 1
    /\ Highlighted(choices) # 0
    /\ Selected(choices) = {}

\* C21: when Enter is dispatched to a Select and the validator accepts, the
\* prompt's response becomes the list of the selected choices.
C21_SelectCommitsAnswer ==
    [][(kind \in SelectKinds /\ RunSelectValidate
           /\ Verdict(validator, Answer(choices), TRUE) = "accept") =>
          response' = [committed |-> TRUE, value |-> Answer(choices)]]_vars

\* C22: a prompt that has left its block with status CANCEL has no response
\* recorded and the run has halted at it, whatever keys were dispatched.
C22_CancelHasNoResponse ==
    (listener.st = "returned" /\ status["A"] = "CANCEL") =>
        /\ ~response.committed
        /\ run.pc = "done"
        /\ status["B"] = "HIDDEN"

\* C23: when Enter is dispatched to a Confirm whose selected answer is its
\* stop answer, the validator accepts and the listener is told to stop (or is
\* closed already), the status becomes CANCEL and stays CANCEL, and when the
\* block ends no link is evaluated and the run halts.
C23_StopAnswerCancels ==
    /\ [][(kind = "Confirm" /\ RunSelectValidate /\ StopChosen) =>
             /\ status'["A"] = "CANCEL"
             /\ accepted'
             /\ \/ ~listener.accepting
                \/ \E i \in 1..Len(hook_tasks') : hook_tasks'[i].hook = "stop"]_vars
    /\ [][(kind = "Confirm" /\ status["A"] = "CANCEL") => status'["A"] = "CANCEL"]_vars
    /\ [][(kind = "Confirm" /\ status["A"] = "CANCEL" /\ InteractEnds) =>
             /\ evaluated' = evaluated
             /\ prompts' = prompts
             /\ run'.pc = "done"]_vars

\* Enter was the only key read, the default answer is the stop answer, and the
\* run has halted without calling the link of the Confirm
C23_Witness ==
    /\ kind = "Confirm"
    /\ fed = 1
    /\ accepted
    /\ listener.st = "returned"
    /\ status["A"] = "CANCEL"
    /\ linked_prompts["A"] # <<>>
    /\ evaluated = <<>>
    /\ run.pc = "done"

\* C24: set_buffer(s) followed by buffer_as_string() gives s, whatever the
\* buffer held before (and whether or not the input is secret).
C24_SetBufferRoundTrip ==
    [][\A s \in Strs(MaxBuffer) :
          SetBufferCall(s) =>
             \A is_secret \in BOOLEAN : BufferAsString(buffer', FALSE, is_secret) = s]_vars

\* set_buffer has replaced a buffer that held pasted text
C24_Witness ==
    /\ last_call = "set_buffer"
    /\ buffer = << <<"b">>, <<"a">> >>
    /\ BufferAsString(buffer, FALSE, FALSE) = <<"b", "a">>

\* the validation run on Enter for a UserInput or FileInput ends in a rejection
Rejects(fits) ==
    /\ RunInputValidate(fits)
    /\ Verdict(validator, BufferAsString(buffer, FALSE, FALSE), fits) \in {"reject", "warn"}

\* C25: for a UserInput and for a FileInput, the buffer is empty after a
\* validation on Enter that the validator rejected.
C25_RejectionClearsBuffer ==
    [][\A fits \in BOOLEAN : Rejects(fits) => buffer' = <<>>]_vars

\* C26: when the validator raises during the validation run on Enter, the
\* message becomes the prompt's warning with status WARNING, the listener goes
\* on as it was and no response is committed.
C26_RaisedMessageBecomesWarning ==
    [][\A fits \in BOOLEAN :
          (/\ RunInputValidate(fits)
           /\ Verdict(validator, BufferAsString(buffer, FALSE, FALSE), fits) = "raise") =>
             /\ warning' # "None"
             /\ status'["A"] = "WARNING"
             /\ listener' = listener
             /\ response' = response]_vars

\* the number of positional arguments a caller has to supply to f
Required(f) == IF f.partial THEN f.pos - f.args ELSE f.pos

\* C27: count_parameters(f) is the number N of non-keyword-only parameters a
\* caller has to supply to f, invoke passes N context arguments when it has
\* them, and the call fails when it has fewer than N.
C27_InvokePassesCount ==
    /\ call.n = Required(function)
    /\ call.given >= Required(function) =>
          (call.passed = Required(function) /\ call.raised = "none")
    /\ call.given < Required(function) => call.raised # "none"

\* C28: a Select or UserInput prompt to which the terminal's ControlC was
\* dispatched while it was listening ends with status CANCEL, and the run
\* halts at it.
C28_InterruptCancels ==
    (/\ kind \in {"Select", "UserInput"}
     /\ interrupted
     /\ listener.st = "returned") =>
        /\ status["A"] = "CANCEL"
        /\ run.pc = "done"

\* C29: when a key callback raised while the prompt was listening, the prompt
\* leaves its block with status ERROR and the exception captured, and the run
\* halts at it.
C29_CallbackFailureIsError ==
    (task_exc # "none" /\ listener.st = "returned") =>
        /\ status["A"] = "ERROR"
        /\ exception["A"] = task_exc
        /\ run.pc = "done"

\* the changes of status a prompt may make
StatusEdges ==
    {<<"HIDDEN", "ACTIVE">>, <<"ACTIVE", "WARNING">>, <<"WARNING", "ACTIVE">>} \cup
    ({"ACTIVE", "WARNING"} \X {"SUCCESS", "HIDDEN", "CANCEL", "ERROR"})

\* C30: the callback of the first printable key after a rejection takes the
\* prompt from WARNING back to ACTIVE, and the status of a prompt only ever
\* changes along HIDDEN->ACTIVE, ACTIVE->WARNING, WARNING->ACTIVE and from
\* ACTIVE or WARNING to SUCCESS, HIDDEN, CANCEL or ERROR.
C30_RetryReturnsToActive ==
    /\ [][(/\ status["A"] = "WARNING"
           /\ RunBufferAppend
           /\ is_printable(Head(hook_tasks).key)) => status'["A"] = "ACTIVE"]_vars
    /\ [][\A p \in DOMAIN status :
            status'[p] # status[p] => <<status[p], status'[p]>> \in StatusEdges]_vars

\* C31: a Select has exactly one focused choice from its construction on,
\* through focus moves, the space key and hotkeys, and construction from
\* choices of which none is pre-selected focuses the first choice.
C31_ExactlyOneFocused ==
    /\ [](sel_pc = "built" => Cardinality(Focused(choices)) = 1)
    /\ [][\A specs \in ChoiceLists(MaxChoices), m \in Modes :
            (/\ SelectNew(specs, m)
             /\ \A i \in 1..Len(specs) : ~specs[i].is_selected) =>
                Focused(choices') = {1}]_vars

\* C32 as stated: after the hotkey of a choice is dispatched the choice is
\* selected in either mode, whatever it was before, and in SINGLE mode the
\* focus is on it.
C32_HotkeySelects ==
    [][\A c \in 1..MaxChoices :
          HotkeySelect(c) =>
             /\ choices'[c].is_selected
             /\ mode = "SINGLE" => Focused(choices') = {c}]_vars

\* C32: the hotkey of a choice, whatever the focus, makes it the only selected
\* and the focused choice of a SINGLE Select; in a MULTI Select it flips the
\* choice's is_selected and changes nothing else.
C32_HotkeySelectsOrToggles ==
    [][\A c \in 1..MaxChoices :
          HotkeySelect(c) =>
             IF mode = "SINGLE"
             THEN /\ Selected(choices') = {c}
                  /\ Focused(choices') = {c}
             ELSE /\ choices'[c].is_selected = ~choices[c].is_selected
                  /\ choices'[c].is_highlighted = choices[c].is_highlighted
                  /\ \A i \in 1..Len(choices) : i # c => choices'[i] = choices[i]]_vars

\* a hotkey has just switched off the only selected choice of a MULTI Select,
\* and a hotkey has just moved selection and focus of a SINGLE Select to its
\* last choice
C32_Witness ==
    /\ sel_key = "hotkey"
    /\ Len(choices) > 1
    /\ \/ mode = "MULTI" /\ Selected(choices) = {} /\ Highlighted(choices) # 0
       \/ /\ mode = "SINGLE"
          /\ Selected(choices) = {Len(choices)}
          /\ Focused(choices) = {Len(choices)}

\* C34: Spinner.interactivity returns only when the background work has
\* ended, and once it has returned the prompt is resolved (SUCCESS, or HIDDEN
\* when transient) and prompt.marker is None.
C34_SpinnerClearsMarker ==
    /\ [][SpinnerReturns => spinner.bg = "dead"]_vars
    /\ [](spinner.pc = "returned" =>
             /\ status["A"] = ResolvedStatus("A")
             /\ marker(spinner) = "None")

\* C33: in a UserInput and in a FileInput the press of a printable key adds
\* the key's data as one element at the end of the buffer, the key / of a
\* FileInput included, and the press of PageUp or PageDown leaves the buffer
\* as it is.
C33_PrintableAppendsOnce ==
    [][\A key \in FileKeys :
          (FileKeyPress(key) \/ UserKeyPress(key)) =>
             /\ is_printable(key) => buffer' = Append(buffer, <<KeyData(key)>>)
             /\ key \in {"PageUp", "PageDown"} => buffer' = buffer]_vars

\* C40: the page of a FileInput is at least 1 and, when there is a
\* suggestion, at most max_pages, whatever keys were dispatched; a re-root and
\* the append of a printable character put it back to 1.
C40_PageWithinBounds ==
    /\ [](kind = "FileInput" =>
             /\ current_page >= 1
             /\ suggestions # {} =>
                   current_page <= max_pages(Cardinality(suggestions), page_size))
    /\ [][\A key \in {"a", "b", "/", "Backslash"} :
             FileKeyPress(key) => current_page' = 1]_vars

\* a callback whose result is awaitable is suspended on it
AwaitableInFlight ==
    \E t \in 1..Len(tasks) : tasks[t].hook = "slow" /\ tasks[t].st = "suspended"

\* C35: while a callback is suspended on its awaitable result, a key read by
\* an accepting listener still gets one pending task per hook bound under it,
\* queued on the loop; a queued task that is run then has its hook called
\* while the first stays suspended (unless the hook is a stop that cancels
\* it); and the stop task made for the interrupt key closes the listener.
C35_AwaitableDoesNotBlock ==
    /\ [][\A k \in ConcreteKeys :
            (FeedKeys(k) /\ AwaitableInFlight /\ is_accepting_keys) =>
               /\ Len(tasks') = Len(tasks) + Len(HooksFor(k))
               /\ \A i \in (Len(tasks) + 1)..Len(tasks') :
                     /\ tasks'[i].st = "pending"
                     /\ i \in active_hooks'
                     /\ \E j \in 1..Len(ready') : ready'[j] = <<"step", i>>]_vars
    /\ [][(/\ RunTaskStep
           /\ AwaitableInFlight
           /\ tasks[Head(ready)[2]].st = "pending"
           /\ ~tasks[Head(ready)[2]].cancel) =>
              /\ invoked' = Append(invoked, Head(ready)[2])
              /\ tasks[Head(ready)[2]].hook # "stopNoWait" => AwaitableInFlight'
              /\ tasks[Head(ready)[2]].hook \in StopHooks => ~is_accepting_keys']_vars

\* with a callback suspended on its awaitable result, the stop task of a
\* later ControlC has been run: the listener is shut and stop waits for it
C35_Witness ==
    /\ AwaitableInFlight
    /\ ~is_accepting_keys
    /\ \E t \in 1..Len(tasks) :
          /\ tasks[t].hook = "stop"
          /\ tasks[t].st = "waiting"
          /\ \E i \in 1..Len(invoked) : invoked[i] = t
          /\ \E s \in tasks[t].waitOn : tasks[s].hook = "slow"

\* C36: when the block of a prompt ends and leaves the prompt with status
\* CANCEL or ERROR (an interrupt, another exception, or a status set inside
\* the block), no link of the prompt is called and the sequence of the menu
\* stays as it is.
C36_LinksOnlyOnSuccess ==
    [][\A exc \in Outcomes :
          (PromptExit(exc) /\ status'[Current] \in {"CANCEL", "ERROR"}) =>
             /\ evaluated' = evaluated
             /\ prompts' = prompts]_vars

\* a prompt with a link left its block without an exception after a callback
\* had set its status to CANCEL: no link was called and the run has halted
C36_Witness ==
    /\ last_exit.prompt # "None"
    /\ last_exit.exc = "none"
    /\ last_exit.before = "CANCEL"
    /\ linked_prompts[last_exit.prompt] # <<>>
    /\ status[last_exit.prompt] = "CANCEL"
    /\ evaluated = <<>>
    /\ run.pc = "done"

\* C37: during Menu.run every prompt is activated at most once and in the
\* order of the sequence: the prompt a step activates was not activated
\* before (its status is HIDDEN and no earlier position holds it), whatever
\* was added to the sequence during the run.
C37_ActivatedOnceInOrder ==
    [][PromptEnter =>
          /\ status[Current] = "HIDDEN"
          /\ \A i \in 1..(run.idx - 1) : prompts[i] # Current]_vars

\* the callback task c, first in the loop's queue, calls stop (either variant)
TaskStopBegins(c) ==
    /\ c \in 1..Len(tasks)
    /\ ready # <<>> /\ Head(ready) = <<"step", c>>
    /\ tasks[c].st = "pending" /\ ~tasks[c].cancel /\ tasks[c].hook \in StopHooks
    /\ RunTaskStep

\* C38: a stop() that a callback task executes (the binding of the interrupt
\* key, reached by a key press or by simulate) never waits for its own task
\* and never requests its cancellation.  When _active_hooks holds no other
\* task, it sets the Event in that same step and the task ends; when the other
\* tasks it holds have all finished, the stop that did not set the Event is
\* queued to resume or waits for finished tasks only, so that its wait returns
\* without the timeout.
C38_StopSparesOwnTask ==
    /\ [](\A c \in 1..Len(tasks) : c \notin tasks[c].waitOn)
    /\ [][\A c \in 1..MaxTasks :
            TaskStopBegins(c) =>
                /\ ~tasks'[c].cancel
                /\ c \notin tasks'[c].waitOn
                /\ (active_hooks \ {c} = {}) =>
                      /\ background_done \in doneSet'
                      /\ tasks'[c].st = "done"
                /\ (InFlightOthers(c) = {}) =>
                      \/ background_done \in doneSet'
                      \/ tasks'[c].st = "ready"
                      \/ /\ Waiting(c)'
                         /\ \A h \in WaitOn(c)' : Finished(tasks', h)]_vars

\* C38 witness: the only callback task there is executed stop() for the
\* interrupt key while it was itself in _active_hooks (its done callback is
\* still queued); the Event is set and the task has ended, and no stop was
\* called from outside.
C38_Witness ==
    /\ Len(tasks) = 1
    /\ tasks[1].hook = "stop" /\ tasks[1].st = "done"
    /\ active_hooks = {1}
    /\ background_done \in doneSet
    /\ ext.st = "idle" /\ ~ext.returned

\* C39: once a validation on Enter has accepted and committed the response of
\* a UserInput, no later step changes the committed response: not a callback
\* of a key read afterwards, and not a callback of a key of the same batch
\* that runs before the stop task has closed the listener.
C39_CommittedResponseKept ==
    [][(kind = "UserInput" /\ response.committed) => response' = response]_vars
====
